---------------------------- MODULE Spec2Model ----------------------------
(***************************************************************************)
(* Model of the property verification engine of the Storybook UI test     *)
(* framework (src/framework/base.py, class PropertyChecker and            *)
(* ComponentBase): the fixture loaders, the value normalizer              *)
(* _css_values_match, verify_component_properties,                        *)
(* verify_component_css_variables and hold_click_state.                   *)
(*                                                                         *)
(* Python strings are modelled as sequences of one-character strings, so  *)
(* that strip(), lower(), split(), replace() and startswith() are         *)
(* computed character by character as the interpreter computes them.      *)
(***************************************************************************)
EXTENDS Integers, Sequences, FiniteSets, TLC

VARIABLES
    \* ---- verify_component_properties / verify_component_css_variables ----
    vPc,          \* position in the running verifier call
    vFn,          \* which verifier is running: "props" | "cssvars" | "none"
    vArgs,        \* which arguments the caller passed: [selector, properties]
    vProps,       \* the expected mapping passed by the caller (ordered dict)
    vSelected,    \* regular_properties / css_var_properties after filtering
    vIdx,         \* number of entries of vSelected already iterated
    vMismatches,  \* the local list `mismatches`
    vEvaluated,   \* calls of component.evaluate, in order: [name, actual]
    vLocated,     \* get_story_locator(selector) was called
    vCssVars,     \* what load_css_variables() returned
    vOutcome,     \* how the call ended
    vFixtureRead, \* a fixture loader was entered by the running verifier call
    \* ---- hold_click_state ----
    hPc,          \* position in hold_click_state
    hCallback,    \* the callback argument: "none" | "returns" | "raises"
    hBox,         \* result of locator.bounding_box(): "unknown" | "none" | "box"
    hCalls,       \* number of hold_click_state calls started so far
    hMouse,       \* pointer operations and callback runs so far, in order
    hMark,        \* Len(hMouse) when the running call started
    hPointer,     \* state of the synthetic pointer: "up" | "down"
    hCallbackRuns,\* how many times the callback was invoked in this call
    hOutcome,     \* how the call ended
    \* ---- fixture loaders ----
    lPc,          \* position in the running loader call
    lFn,          \* which loader: "whole" | "variant" | "prefix" | "cssfile"
    lFile,        \* the fixture file: [exists, lines, failAt]
    lPrefix,      \* prefix used by the variant / prefix loader
    lArgs,        \* the (variant, state, size) arguments of the variant loader
    lIdx,         \* number of lines already consumed by `for line in f`
    lResult,      \* the dict being filled (ordered: sequence of [k, v])
    lOutcome,     \* how the call ended
    lPrev,        \* <<[args, result]>> of the preceding call when this call repeats it
    \* ---- value comparison helpers called on their own ----
    mFn,          \* "_css_values_match" | "declared_matches" | "_norm_color" | "none"
    mExpected,    \* argument `expected` (first value)
    mActual,      \* argument `actual` (second value)
    mResult,      \* the returned bool: "unset" | "True" | "False"
    mOutput,      \* values returned by the color canonicalizer, in call order
    \* ---- verify_all_css_variables ----
    aPc,          \* position in verify_all_css_variables
    aNavigated,   \* navigate_to_story was called (else wait_for_component_ready)
    aRootVars,    \* what get_all_css_variables_from_root() returned
    aBrowser,     \* browser_vars after the "--tw-" filter (ordered dict)
    aFixture,     \* properties_vars (ordered dict)
    aIdx,         \* number of fixture variables already classified
    aSeen,        \* browser_value of each iteration, in order: [name, value]
    aMismatches,  \* the local list `mismatches`
    aMissingInBrowser,    \* the local dict `missing_in_browser`
    aMatched,     \* the local dict `matched`
    aMissingInProperties, \* the dict `missing_in_properties`
    aOutcome,     \* how the call ended
    \* ---- get_declared_style ----
    dPc,          \* "idle" | "done"
    dDocument,    \* the story document: [present, element, sheets, inline]
    dResult,      \* the returned string
    \* ---- fixture files seen by successive verification calls ----
    fDisk,        \* content of each CSS variable file on disk, by path
    fOverride,    \* _ThemePaletteTester._css_properties_file: <<>> or <<path>>
    fPc,          \* "idle" | "verifying"
    fFn,          \* the verifier running: "all" | "component" | "none"
    fExpected,    \* the dict load_css_variables() returned to the running call
    fPrev,        \* <<[path, file, expected]>> of the call before, or <<>>
    \* ---- navigate_to_story ----
    nPc,          \* "idle" | "goto" | "networkidle" | "body" | "iframe" | "selector" | "done"
    nTimeout,     \* self.timeout (config.STORYBOOK_TIMEOUT)
    nSelector,    \* wait_for_selector was given
    nWaits,       \* the waits issued so far, in order: [wait, timeout]
    nIdleWarned,  \* the network-idle wait raised and the warning was logged
    nOutcome,     \* "none" | "returned" | "raised"
    \* ---- build_storybook_args_query ----
    qPc,          \* "idle" | "done"
    qArgs,        \* the args dict (ordered: sequence of [k, v])
    qResult,      \* the returned string
    \* ---- SnapshotTester ----
    sPc,          \* "idle" | "done"
    sFn,          \* "save" | "load" | "compare" | "assert" | "none"
    sArgs,        \* [story, name, data, update, ignore] of the running call
    sStore,       \* snapshot files by path: <<>> (no file) or <<JSON document>>
    sBefore,      \* the files as they were when the running call began
    sOutcome      \* [kind, value]: how the call ended and what it returned

verifyVars == <<vPc, vFn, vArgs, vProps, vSelected, vIdx, vMismatches, vEvaluated,
                vLocated, vCssVars, vOutcome, vFixtureRead>>
holdVars   == <<hPc, hCallback, hBox, hCalls, hMouse, hMark, hPointer, hCallbackRuns, hOutcome>>
loadVars   == <<lPc, lFn, lFile, lPrefix, lArgs, lIdx, lResult, lOutcome, lPrev>>
matchVars  == <<mFn, mExpected, mActual, mResult, mOutput>>
allVars    == <<aPc, aNavigated, aRootVars, aBrowser, aFixture, aIdx, aSeen, aMismatches,
                aMissingInBrowser, aMatched, aMissingInProperties, aOutcome>>
declVars   == <<dPc, dDocument, dResult>>
freshVars  == <<fDisk, fOverride, fPc, fFn, fExpected, fPrev>>
navVars    == <<nPc, nTimeout, nSelector, nWaits, nIdleWarned, nOutcome>>
queryVars  == <<qPc, qArgs, qResult>>
snapVars   == <<sPc, sFn, sArgs, sStore, sBefore, sOutcome>>
vars       == <<verifyVars, holdVars, loadVars, matchVars, allVars, declVars, freshVars, navVars,
                queryVars, snapVars>>

-----------------------------------------------------------------------------
(* Python str primitives on character sequences.                           *)

Digits == {"0", "1", "2", "3", "4", "5", "6", "7", "8", "9"}

\* str.isspace() for the characters that occur in fixture lines and values.
IsSpace(c) == c \in {" ", "\t", "\n", "\r"}

RECURSIVE LStrip(_)
LStrip(s) == IF s # <<>> /\ IsSpace(Head(s)) THEN LStrip(Tail(s)) ELSE s

RECURSIVE RStrip(_)
RStrip(s) ==
    IF s # <<>> /\ IsSpace(s[Len(s)]) THEN RStrip(SubSeq(s, 1, Len(s) - 1)) ELSE s

\* str.strip()
Strip(s) == RStrip(LStrip(s))

\* str.lower() on one character (ASCII letters used by fixtures and callers).
LowerChar(c) ==
    CASE c = "A" -> "a" [] c = "B" -> "b" [] c = "C" -> "c" [] c = "D" -> "d"
      [] c = "E" -> "e" [] c = "F" -> "f" [] c = "G" -> "g" [] c = "H" -> "h"
      [] c = "I" -> "i" [] c = "J" -> "j" [] c = "K" -> "k" [] c = "L" -> "l"
      [] c = "M" -> "m" [] c = "N" -> "n" [] c = "O" -> "o" [] c = "P" -> "p"
      [] c = "Q" -> "q" [] c = "R" -> "r" [] c = "S" -> "s" [] c = "T" -> "t"
      [] c = "U" -> "u" [] c = "V" -> "v" [] c = "W" -> "w" [] c = "X" -> "x"
      [] c = "Y" -> "y" [] c = "Z" -> "z" [] OTHER -> c

\* str.lower()
Lower(s) == [i \in 1..Len(s) |-> LowerChar(s[i])]

\* str.startswith(p)
StartsWith(s, p) == Len(s) >= Len(p) /\ SubSeq(s, 1, Len(p)) = p

\* `c in s`
Contains(s, c) == \E i \in 1..Len(s) : s[i] = c

\* str.find(c) + 1: position of the first occurrence of c, 0 when absent.
FirstIndex(s, c) ==
    IF Contains(s, c)
    THEN CHOOSE i \in 1..Len(s) : s[i] = c /\ \A j \in 1..(i - 1) : s[j] # c
    ELSE 0

\* s.split(c, 1) when c occurs in s: the text before and after the first c.
SplitOnce(s, c) ==
    LET i == FirstIndex(s, c)
    IN  <<SubSeq(s, 1, i - 1), SubSeq(s, i + 1, Len(s))>>

\* str.replace(pat, ""): every non-overlapping occurrence, left to right.
RECURSIVE RemoveAll(_, _)
RemoveAll(s, pat) ==
    IF s = <<>> THEN <<>>
    ELSE IF StartsWith(s, pat) THEN RemoveAll(SubSeq(s, Len(pat) + 1, Len(s)), pat)
    ELSE <<Head(s)>> \o RemoveAll(Tail(s), pat)

sPx      == <<"p", "x">>
sPercent == <<"%">>
sVarOpen == <<"v", "a", "r", "(", "-", "-">>
sCssVarNs == <<"c", "s", "s", "-", "v", "a", "r", ".">>
sDashes  == <<"-", "-">>

-----------------------------------------------------------------------------
(* float(): the decimal forms "[sign] digits [. digits]" and               *)
(* "[sign] . digits", surrounded by optional whitespace.  A parsed value   *)
(* is kept exactly as mantissa m and number of fraction digits f           *)
(* (value = m / 10^f).  Any other text raises ValueError (ok = FALSE).     *)

RECURSIVE Pow10(_)
Pow10(n) == IF n = 0 THEN 1 ELSE 10 * Pow10(n - 1)

DigitVal(c) ==
    CASE c = "0" -> 0 [] c = "1" -> 1 [] c = "2" -> 2 [] c = "3" -> 3
      [] c = "4" -> 4 [] c = "5" -> 5 [] c = "6" -> 6 [] c = "7" -> 7
      [] c = "8" -> 8 [] c = "9" -> 9

RECURSIVE DigitsValue(_)
DigitsValue(s) ==
    IF s = <<>> THEN 0
    ELSE DigitsValue(SubSeq(s, 1, Len(s) - 1)) * 10 + DigitVal(s[Len(s)])

FloatInvalid == [ok |-> FALSE, m |-> 0, f |-> 0]

ParseFloat(text) ==
    LET s    == Strip(text)
        neg  == s # <<>> /\ Head(s) = "-"
        body == IF s # <<>> /\ Head(s) \in {"-", "+"} THEN Tail(s) ELSE s
        dot  == FirstIndex(body, ".")
        ip   == IF dot = 0 THEN body ELSE SubSeq(body, 1, dot - 1)
        fp   == IF dot = 0 THEN <<>> ELSE SubSeq(body, dot + 1, Len(body))
        allDigits(x) == \A i \in 1..Len(x) : x[i] \in Digits
    IN  IF allDigits(ip) /\ allDigits(fp) /\ Len(ip) + Len(fp) > 0
        THEN [ok |-> TRUE,
              m  |-> (IF neg THEN -1 ELSE 1) * DigitsValue(ip \o fp),
              f  |-> Len(fp)]
        ELSE FloatInvalid

\* float(a) == float(b) for two parsed values
FloatEq(a, b) == a.m * Pow10(b.f) = b.m * Pow10(a.f)

Abs(n) == IF n < 0 THEN -n ELSE n

\* abs(a - b) > tol for two parsed values and an integer tolerance
FloatDiffExceeds(a, b, tol) ==
    Abs(a.m * Pow10(b.f) - b.m * Pow10(a.f)) > tol * Pow10(a.f + b.f)

-----------------------------------------------------------------------------
(* PropertyChecker._css_values_match                                       *)

\* CleanLength without the `if clean == "": clean = "0"` step.
CleanLengthNoZero(s) == Strip(RemoveAll(RemoveAll(s, sPx), sPercent))

\* e_str.replace("px", "").replace("%", "").strip(), then "" -> "0"
CleanLength(s) ==
    LET c == Strip(RemoveAll(RemoveAll(s, sPx), sPercent))
    IN  IF c = <<>> THEN <<"0">> ELSE c

CssValuesMatch(expected, actual) ==
    LET e_str == Lower(Strip(expected))
        a_str == Lower(Strip(actual))
        e_num == ParseFloat(CleanLength(e_str))
        a_num == ParseFloat(CleanLength(a_str))
    IN  IF e_str = a_str THEN TRUE
        ELSE IF e_num.ok /\ a_num.ok THEN FloatEq(e_num, a_num)
        ELSE FALSE


-----------------------------------------------------------------------------
(* Ordered dicts: a sequence of [k, v] entries with distinct keys, in       *)
(* insertion order.                                                         *)

DictHas(d, k) == \E i \in 1..Len(d) : d[i].k = k

DictGet(d, k) == d[CHOOSE i \in 1..Len(d) : d[i].k = k].v

\* d.setdefault(k, v): an existing key keeps its first value.
DictSetFirstWins(d, k, v) ==
    IF DictHas(d, k) THEN d ELSE Append(d, [k |-> k, v |-> v])

\* d[k] = v: an existing key keeps its position and takes the new value.
DictSet(d, k, v) ==
    IF DictHas(d, k)
    THEN [i \in 1..Len(d) |-> IF d[i].k = k THEN [k |-> k, v |-> v] ELSE d[i]]
    ELSE Append(d, [k |-> k, v |-> v])

DictKeys(d) == {d[i].k : i \in 1..Len(d)}

-----------------------------------------------------------------------------
(* Inputs of the verifiers.                                                 *)

MaxProps == 3

PropNames == <<"color", "width", "margin", "height", "padding", "top">>

sEmpty == <<>>
sZero  == <<"0">>
sZeroPx == <<"0", "p", "x">>
sRed   == <<"r", "e", "d">>
sTenPx == <<"1", "0", "p", "x">>
sElevenPx == <<"1", "1", "p", "x">>
sVarA  == <<"v", "a", "r", "(", "-", "-", "a", ")">>
sVarB  == <<"v", "a", "r", "(", "-", "-", "b", ")">>

\* An expected value: a literal string (tuple = FALSE) or a
\* (value, tolerance) pair (tuple = TRUE); tol is <<>> for None, <<t>> else.
ExpectedChoices ==
    { [tuple |-> FALSE, value |-> sEmpty, tol |-> <<>>],
      [tuple |-> FALSE, value |-> sZero,  tol |-> <<>>],
      [tuple |-> FALSE, value |-> sRed,   tol |-> <<>>],
      [tuple |-> FALSE, value |-> sVarA,  tol |-> <<>>],
      [tuple |-> TRUE,  value |-> sTenPx, tol |-> <<1>>],
      [tuple |-> TRUE,  value |-> sTenPx, tol |-> <<>>] }

\* Values window.getComputedStyle can report for a property.
ActualValues == {sEmpty, sZeroPx, sRed, sElevenPx}

Entry(n, e) == [name |-> n, tuple |-> e.tuple, value |-> e.value, tol |-> e.tol]

\* All expected mappings over the first MaxProps property names, keys in
\* the order of PropNames.
RECURSIVE MappingsFrom(_)
MappingsFrom(i) ==
    IF i > MaxProps THEN {<<>>}
    ELSE LET rest == MappingsFrom(i + 1)
         IN  rest \cup { <<Entry(PropNames[i], e)>> \o r : e \in ExpectedChoices, r \in rest }

Mappings == MappingsFrom(1)

-----------------------------------------------------------------------------
(* PropertyChecker.verify_component_properties                              *)

\* isinstance(v, str) and v.startswith("var(--")
IsVarValued(entry) == ~entry.tuple /\ StartsWith(entry.value, sVarOpen)

\* regular_properties without its filter: every entry is kept.
RegularPropertiesAll(props) == props

\* regular_properties = {k: v ... if not (isinstance(v, str) and v.startswith("var(--"))}
RegularProperties(props) == SelectSeq(props, LAMBDA en : ~IsVarValued(en))

\* css_var_properties without its filter: every entry is kept.
CssVarPropertiesAll(props) == props

\* css_var_properties = {k: v ... if isinstance(v, str) and v.startswith("var(--")}
CssVarProperties(props) == SelectSeq(props, LAMBDA en : IsVarValued(en))

\* float(str(v).replace("px", "").replace("%", ""))
TolFloat(v) == ParseFloat(RemoveAll(RemoveAll(v, sPx), sPercent))

\* The comparison reduced to its first rule: the trimmed, lower-cased
\* strings differ.
PropertyMismatchExactOnly(entry, actual) ==
    Lower(Strip(entry.value)) # Lower(Strip(actual))

\* abs(a - b) >= tol
FloatDiffAtLeast(a, b, tol) ==
    Abs(a.m * Pow10(b.f) - b.m * Pow10(a.f)) >= tol * Pow10(a.f + b.f)

\* The loop body with the tolerance test written `>=`: a difference equal
\* to the tolerance counts as a mismatch.
PropertyMismatchInclusive(entry, actual) ==
    IF entry.tuple /\ entry.tol # <<>>
    THEN LET actual_num   == TolFloat(actual)
             expected_num == TolFloat(entry.value)
         IN  IF actual_num.ok /\ expected_num.ok
             THEN FloatDiffAtLeast(actual_num, expected_num, entry.tol[1])
             ELSE ~CssValuesMatch(entry.value, actual)
    ELSE ~CssValuesMatch(entry.value, actual)

\* The body of the for loop, lines 991-1007: TRUE when a line is appended
\* to `mismatches` for this entry and this actual value.
PropertyMismatch(entry, actual) ==
    IF entry.tuple /\ entry.tol # <<>>
    THEN LET actual_num   == TolFloat(actual)
             expected_num == TolFloat(entry.value)
         IN  IF actual_num.ok /\ expected_num.ok
             THEN FloatDiffExceeds(actual_num, expected_num, entry.tol[1])
             ELSE ~CssValuesMatch(entry.value, actual)
    ELSE ~CssValuesMatch(entry.value, actual)

MismatchLine(entry, actual) ==
    [name |-> entry.name, expected |-> entry.value, tol |-> entry.tol, actual |-> actual]

NoOutcome == [kind |-> "none", count |-> 0, lines |-> <<>>]
Returned  == [kind |-> "return", count |-> 0, lines |-> <<>>]
Raised(k) == [kind |-> k, count |-> 0, lines |-> <<>>]

\* raise AssertionError("Found %s property mismatch(es): ..." % (len(mismatches), join(mismatches)))
AggregatedFailure(mismatches) ==
    [kind |-> "AssertionError", count |-> Len(mismatches), lines |-> mismatches]

VerifyIdle == vPc = "idle"

\* Lines 970-980: argument checks, filtering, early return, locator.
VerifyPropsCall ==
    /\ VerifyIdle
    /\ \E props \in Mappings, selector \in BOOLEAN, given \in BOOLEAN :
         /\ vFn' = "props"
         /\ vArgs' = [selector |-> selector, properties |-> given]
         /\ vProps' = IF given THEN props ELSE <<>>
         /\ vIdx' = 0
         /\ vMismatches' = <<>>
         /\ vEvaluated' = <<>>
         /\ vCssVars' = <<>>
         /\ vFixtureRead' = FALSE
         /\ IF ~selector
            THEN /\ vOutcome' = Raised("ValueError")
                 /\ vPc' = "done" /\ vSelected' = <<>> /\ vLocated' = FALSE
            ELSE IF ~given
            \* self.load_component_properties() lacks its required component_name
            THEN /\ vOutcome' = Raised("TypeError")
                 /\ vPc' = "done" /\ vSelected' = <<>> /\ vLocated' = FALSE
            ELSE IF RegularProperties(props) = <<>>
            THEN /\ vOutcome' = Returned
                 /\ vPc' = "done" /\ vSelected' = <<>> /\ vLocated' = FALSE
            ELSE /\ vOutcome' = NoOutcome
                 /\ vPc' = "loop"
                 /\ vSelected' = RegularProperties(props)
                 /\ vLocated' = TRUE
    /\ UNCHANGED <<holdVars, loadVars, matchVars, allVars, declVars, freshVars, navVars, queryVars, snapVars>>

\* The loop leaving at the first mismatch instead of accumulating.
VerifyPropsIterateFailFast ==
    /\ vPc = "loop" /\ vFn = "props" /\ vIdx < Len(vSelected)
    /\ \E actual \in ActualValues :
         LET entry == vSelected[vIdx + 1]
         IN  /\ vEvaluated' = Append(vEvaluated, [name |-> entry.name, actual |-> actual])
             /\ vMismatches' = IF PropertyMismatch(entry, actual)
                               THEN Append(vMismatches, MismatchLine(entry, actual))
                               ELSE vMismatches
             /\ vIdx' = IF PropertyMismatch(entry, actual) THEN Len(vSelected) ELSE vIdx + 1
    /\ UNCHANGED <<vPc, vFn, vArgs, vProps, vSelected, vLocated, vCssVars, vOutcome,
                   vFixtureRead>>
    /\ UNCHANGED <<holdVars, loadVars, matchVars, allVars, declVars, freshVars, navVars, queryVars, snapVars>>

\* One iteration of `for property_name, expected in regular_properties.items()`.
VerifyPropsIterate ==
    /\ vPc = "loop" /\ vFn = "props" /\ vIdx < Len(vSelected)
    /\ \E actual \in ActualValues :
         LET entry == vSelected[vIdx + 1]
         IN  /\ vEvaluated' = Append(vEvaluated, [name |-> entry.name, actual |-> actual])
             /\ vMismatches' = IF PropertyMismatch(entry, actual)
                               THEN Append(vMismatches, MismatchLine(entry, actual))
                               ELSE vMismatches
             /\ vIdx' = vIdx + 1
    /\ UNCHANGED <<vPc, vFn, vArgs, vProps, vSelected, vLocated, vCssVars, vOutcome,
                   vFixtureRead>>
    /\ UNCHANGED <<holdVars, loadVars, matchVars, allVars, declVars, freshVars, navVars, queryVars, snapVars>>

\* Lines 1008-1009: after the loop.
VerifyPropsFinish ==
    /\ vPc = "loop" /\ vFn = "props" /\ vIdx = Len(vSelected)
    /\ vOutcome' = IF vMismatches # <<>> THEN AggregatedFailure(vMismatches) ELSE Returned
    /\ vPc' = "done"
    /\ UNCHANGED <<vFn, vArgs, vProps, vSelected, vIdx, vMismatches, vEvaluated,
                   vLocated, vCssVars, vFixtureRead>>
    /\ UNCHANGED <<holdVars, loadVars, matchVars, allVars, declVars, freshVars, navVars, queryVars, snapVars>>

-----------------------------------------------------------------------------
(* PropertyChecker.verify_component_css_variables                           *)

\* A value that may be None (JSON null): [null, s].
Null   == [null |-> TRUE, s |-> <<>>]
Str(s) == [null |-> FALSE, s |-> s]

\* `not x` for a value that is None or a string
Falsy(x) == x.null \/ x.s = <<>>

\* str(x)
StrOf(x) == IF x.null THEN <<"N", "o", "n", "e">> ELSE x.s

HexDigits == Digits \cup {"a", "b", "c", "d", "e", "f"}

HexVal(c) ==
    CASE c = "a" -> 10 [] c = "b" -> 11 [] c = "c" -> 12
      [] c = "d" -> 13 [] c = "e" -> 14 [] c = "f" -> 15
      [] OTHER -> DigitVal(c)

DigitChar(d) == <<"0", "1", "2", "3", "4", "5", "6", "7", "8", "9">>[d + 1]

\* "%d" % n for n >= 0
RECURSIVE IntToStr(_)
IntToStr(n) ==
    IF n < 10 THEN <<DigitChar(n)>> ELSE IntToStr(n \div 10) \o <<DigitChar(n % 10)>>

\* The longest prefix of s made of digits (regex \d+ followed by a non-digit).
RECURSIVE TakeDigits(_)
TakeDigits(s) ==
    IF s # <<>> /\ Head(s) \in Digits THEN <<Head(s)>> \o TakeDigits(Tail(s)) ELSE <<>>

Drop(s, n) == SubSeq(s, n + 1, Len(s))

\* Pieces of re.match(r"rgba?\((\d+),\s*(\d+),\s*(\d+)", s).  NoMatch is a
\* remainder on which every further piece of the pattern fails.
NoMatch == <<"!">>

\* after "rgba?\("
RgbAfterOpen(s) ==
    IF StartsWith(s, <<"r", "g", "b", "a", "(">>) THEN Drop(s, 5)
    ELSE IF StartsWith(s, <<"r", "g", "b", "(">>) THEN Drop(s, 4)
    ELSE NoMatch

\* after "(\d+),\s*"
RgbAfterGroup(s) ==
    LET rest == Drop(s, Len(TakeDigits(s)))
    IN  IF TakeDigits(s) # <<>> /\ rest # <<>> /\ Head(rest) = ","
        THEN LStrip(Tail(rest)) ELSE NoMatch

RgbGroup1(s) == TakeDigits(RgbAfterOpen(s))
RgbGroup2(s) == TakeDigits(RgbAfterGroup(RgbAfterOpen(s)))
RgbGroup3(s) == TakeDigits(RgbAfterGroup(RgbAfterGroup(RgbAfterOpen(s))))

\* re.match(r"rgba?\((\d+),\s*(\d+),\s*(\d+)", s) is not None
RgbMatches(s) == RgbGroup3(s) # <<>>

sRgbOpen == <<"r", "g", "b", "(">>
sCommaSp == <<",", " ">>

\* "rgb(%s, %s, %s)" % (r, g, b)
RgbText(r, g, b) == sRgbOpen \o r \o sCommaSp \o g \o sCommaSp \o b \o <<")">>

\* "".join([c * 2 for c in h])
Doubled(h) == [i \in 1..(2 * Len(h)) |-> h[(i + 1) \div 2]]

\* int(h[i:i+2], 16) for two hexadecimal digits
HexPair(h, i) == 16 * HexVal(h[i]) + HexVal(h[i + 1])

\* "rgb(%d, %d, %d)" % (int(h[0:2], 16), int(h[2:4], 16), int(h[4:6], 16))
HexToRgb(h) ==
    RgbText(IntToStr(HexPair(h, 1)), IntToStr(HexPair(h, 3)), IntToStr(HexPair(h, 5)))

\* h = s[1:] without the doubling of a three-digit body.
HexBodyNoDoubling(s) == Tail(s)

\* h = s[1:]; if len(h) == 3: h = "".join([c * 2 for c in h])
HexBody(s) == IF Len(s) = 4 THEN Doubled(Tail(s)) ELSE Tail(s)

\* _norm_color on a non-empty string, after s = str(s).strip().lower()
NormColorText(s) ==
    IF StartsWith(s, <<"r", "g", "b">>)
    THEN [ok |-> TRUE,
          v  |-> IF RgbMatches(s)
                 THEN Str(RgbText(RgbGroup1(s), RgbGroup2(s), RgbGroup3(s)))
                 ELSE Str(s)]
    ELSE IF StartsWith(s, <<"#">>) /\ Len(HexBody(s)) = 6
    THEN IF \A i \in 1..6 : HexBody(s)[i] \in HexDigits
         THEN [ok |-> TRUE, v |-> Str(HexToRgb(HexBody(s)))]
         ELSE [ok |-> FALSE, v |-> Str(s)]
    ELSE [ok |-> TRUE, v |-> Str(s)]

\* The nested helper _norm_color(s): [ok, v]; ok = FALSE when int(.., 16)
\* raises ValueError on a six-character body that is not hexadecimal.
NormColor(x) ==
    IF Falsy(x) THEN [ok |-> TRUE, v |-> x] ELSE NormColorText(Lower(Strip(x.s)))

\* The nested helper _norm_hex(s)
NormHexText(s) == IF StartsWith(s, <<"#">>) THEN <<"#">> \o HexBody(s) ELSE s

NormHex(x) == IF Falsy(x) THEN x ELSE Str(NormHexText(Lower(Strip(x.s))))

sHash0f0    == <<"#", "0", "f", "0">>
sHash00ff00 == <<"#", "0", "0", "f", "f", "0", "0">>
sHashF00    == <<"#", "f", "0", "0">>
sRgbGreen   == <<"r", "g", "b", "(", "0", ",", " ", "2", "5", "5", ",", " ", "0", ")">>
sVarKeyA    == <<"-", "-", "a">>
sVarKeyB    == <<"-", "-", "b">>

\* What the in-page script returns for one entry: {actual, resolved, rawVar}.
BrowserResults ==
    { [actual |-> Str(sRgbGreen), resolved |-> Str(sRgbGreen), rawVar |-> Str(sHash0f0)],
      [actual |-> Str(sRed),      resolved |-> Str(sRed),      rawVar |-> Str(sHash00ff00)],
      [actual |-> Str(sRgbGreen), resolved |-> Null,           rawVar |-> Str(sHashF00)],
      [actual |-> Str(sEmpty),    resolved |-> Null,           rawVar |-> Null] }

\* Contents of components/css-variables.properties as load_css_variables()
\* returns them (empty when the file is missing).
CssVariableFixtures ==
    { <<>>,
      <<[k |-> sVarKeyA, v |-> sHash0f0]>>,
      <<[k |-> sDashes \o sVarKeyA, v |-> sHash0f0], [k |-> sDashes \o sVarKeyB, v |-> sRed]>>,
      <<[k |-> sDashes \o sVarKeyA, v |-> sEmpty], [k |-> sDashes \o sVarKeyB, v |-> sHash00ff00]>> }

\* var_name_with_dash = "--" + expected[4:-1]
VarNameWithDash(expected) == sDashes \o SubSeq(expected, 5, Len(expected) - 1)

\* css_variables.get(name)
PredefinedValue(cssVars, name) ==
    IF DictHas(cssVars, name) THEN Str(DictGet(cssVars, name)) ELSE Null

CssLine(entry, kind) == [name |-> entry.name, kind |-> kind, expected |-> entry.value]

\* The body of the for loop, lines 1068-1121: [ok, lines]; lines are the
\* mismatches appended for this entry, ok = FALSE when _norm_color raises.
CssVarCheck(entry, result, cssVars) ==
    LET predefined == PredefinedValue(cssVars, VarNameWithDash(entry.value))
        an == NormColor(result.actual)
        rn == NormColor(result.resolved)
        pn == NormColor(predefined)
        rawLine == IF ~Falsy(result.rawVar) /\ NormHex(result.rawVar) # NormHex(predefined)
                   THEN <<CssLine(entry, "variable value")>> ELSE <<>>
        cmpLine == IF Strip(StrOf(an.v)) # Strip(StrOf(pn.v))
                   THEN <<CssLine(entry, "computed")>> ELSE <<>>
    IN  IF Falsy(predefined)
        THEN [ok |-> TRUE, lines |-> <<CssLine(entry, "no predefined value")>>]
        ELSE IF ~Falsy(result.resolved) \/ ~Falsy(result.actual)
        THEN IF an.ok /\ rn.ok /\ pn.ok
             THEN [ok |-> TRUE, lines |-> rawLine \o cmpLine]
             ELSE [ok |-> FALSE, lines |-> <<>>]
        ELSE [ok |-> TRUE, lines |-> <<CssLine(entry, "not found")>>]

\* component = self.get_story_locator(selector) with the locator obtained
\* ahead of the selector check.
CssVarsLocatedBeforeCheck(selector) == TRUE

\* Lines 1016-1018: component = self.get_story_locator(selector) comes after
\* `if selector is None: raise`, so the locator exists iff a selector was passed.
CssVarsLocated(selector) == selector

\* Lines 1016-1028: argument check, locator, filtering, early return,
\* load_css_variables().
VerifyCssVarsCall ==
    /\ VerifyIdle
    /\ \E props \in Mappings, selector \in BOOLEAN, given \in BOOLEAN,
          fixture \in CssVariableFixtures :
         /\ vFn' = "cssvars"
         /\ vArgs' = [selector |-> selector, properties |-> given]
         /\ vProps' = IF given THEN props ELSE <<>>
         /\ vIdx' = 0
         /\ vMismatches' = <<>>
         /\ vEvaluated' = <<>>
         /\ vLocated' = CssVarsLocated(selector)
         /\ IF ~selector
            THEN /\ vOutcome' = Raised("ValueError")
                 /\ vPc' = "done" /\ vSelected' = <<>> /\ vCssVars' = <<>>
                 /\ vFixtureRead' = FALSE
            ELSE IF ~given
            \* self.load_component_properties() lacks its required component_name
            THEN /\ vOutcome' = Raised("TypeError")
                 /\ vPc' = "done" /\ vSelected' = <<>> /\ vCssVars' = <<>>
                 /\ vFixtureRead' = FALSE
            ELSE IF CssVarProperties(props) = <<>>
            THEN /\ vOutcome' = Returned
                 /\ vPc' = "done" /\ vSelected' = <<>> /\ vCssVars' = <<>>
                 /\ vFixtureRead' = FALSE
            ELSE /\ vOutcome' = NoOutcome
                 /\ vPc' = "loop"
                 /\ vSelected' = CssVarProperties(props)
                 /\ vCssVars' = fixture
                 /\ vFixtureRead' = TRUE
    /\ UNCHANGED <<holdVars, loadVars, matchVars, allVars, declVars, freshVars, navVars, queryVars, snapVars>>

\* One iteration of `for property_name, expected in css_var_properties.items()`.
VerifyCssVarsIterate ==
    /\ vPc = "loop" /\ vFn = "cssvars" /\ vIdx < Len(vSelected)
    /\ \E result \in BrowserResults :
         LET entry == vSelected[vIdx + 1]
             chk   == CssVarCheck(entry, result, vCssVars)
         IN  /\ vEvaluated' = Append(vEvaluated, [name |-> entry.name, actual |-> result.actual.s])
             /\ vMismatches' = vMismatches \o chk.lines
             /\ vIdx' = vIdx + 1
             /\ vPc' = IF chk.ok THEN "loop" ELSE "done"
             /\ vOutcome' = IF chk.ok THEN vOutcome ELSE Raised("ValueError")
    /\ UNCHANGED <<vFn, vArgs, vProps, vSelected, vLocated, vCssVars, vFixtureRead>>
    /\ UNCHANGED <<holdVars, loadVars, matchVars, allVars, declVars, freshVars, navVars, queryVars, snapVars>>

\* Lines 1122-1123: after the loop.
VerifyCssVarsFinish ==
    /\ vPc = "loop" /\ vFn = "cssvars" /\ vIdx = Len(vSelected)
    /\ vOutcome' = IF vMismatches # <<>> THEN AggregatedFailure(vMismatches) ELSE Returned
    /\ vPc' = "done"
    /\ UNCHANGED <<vFn, vArgs, vProps, vSelected, vIdx, vMismatches, vEvaluated,
                   vLocated, vCssVars, vFixtureRead>>
    /\ UNCHANGED <<holdVars, loadVars, matchVars, allVars, declVars, freshVars, navVars, queryVars, snapVars>>

\* The call is over: its result or exception is with the caller and its
\* locals are gone.
VerifyReturn ==
    /\ vPc = "done"
    /\ vPc' = "idle" /\ vFn' = "none"
    /\ vArgs' = [selector |-> FALSE, properties |-> FALSE]
    /\ vProps' = <<>> /\ vSelected' = <<>> /\ vIdx' = 0
    /\ vMismatches' = <<>> /\ vEvaluated' = <<>> /\ vLocated' = FALSE
    /\ vCssVars' = <<>> /\ vOutcome' = NoOutcome /\ vFixtureRead' = FALSE
    /\ UNCHANGED <<holdVars, loadVars, matchVars, allVars, declVars, freshVars, navVars, queryVars, snapVars>>

-----------------------------------------------------------------------------
(* PropertyChecker.hold_click_state                                         *)

MaxCalls == 3

\* The callback argument: None, a callable that returns a value, or a
\* callable that raises.
Callbacks ==
    { [kind |-> "none",    value |-> "None"],
      [kind |-> "returns", value |-> "v1"],
      [kind |-> "returns", value |-> "None"],
      [kind |-> "raises",  value |-> "None"] }

HoldNoOutcome == [kind |-> "none", value |-> "None"]

\* Lines 399-400: the locator, then expect(locator).to_be_visible(timeout),
\* which raises AssertionError when the element does not become visible.
HoldCall ==
    /\ hPc \in {"idle", "done"}
    /\ hCalls < MaxCalls
    /\ \E cb \in Callbacks, visible \in BOOLEAN :
         /\ hCallback' = cb
         /\ hPc' = IF visible THEN "box" ELSE "done"
         /\ hOutcome' = IF visible THEN HoldNoOutcome
                        ELSE [kind |-> "AssertionError", value |-> "None"]
    /\ hCalls' = hCalls + 1
    /\ hMark' = Len(hMouse)
    /\ hBox' = "unknown"
    /\ hCallbackRuns' = 0
    /\ UNCHANGED <<hMouse, hPointer>>
    /\ UNCHANGED <<verifyVars, loadVars, matchVars, allVars, declVars, freshVars, navVars, queryVars, snapVars>>

\* The pointer moved to the element before the bounding box is checked.
HoldBoundingBoxMoveFirst ==
    /\ hPc = "box"
    /\ \E box \in {"none", "box"} :
         /\ hBox' = box
         /\ hPc' = IF box = "none" THEN "done" ELSE "down"
         /\ hOutcome' = IF box = "none" THEN [kind |-> "ValueError", value |-> "None"]
                        ELSE hOutcome
    /\ hMouse' = Append(hMouse, "move")
    /\ UNCHANGED <<hCallback, hCalls, hMark, hPointer, hCallbackRuns>>
    /\ UNCHANGED <<verifyVars, loadVars, matchVars, allVars, declVars, freshVars, navVars, queryVars, snapVars>>

\* Lines 401-405: box = locator.bounding_box(); if not box: raise ValueError.
HoldBoundingBox ==
    /\ hPc = "box"
    /\ \E box \in {"none", "box"} :
         /\ hBox' = box
         /\ hPc' = IF box = "none" THEN "done" ELSE "move"
         /\ hOutcome' = IF box = "none" THEN [kind |-> "ValueError", value |-> "None"]
                        ELSE hOutcome
    /\ UNCHANGED <<hCallback, hCalls, hMouse, hMark, hPointer, hCallbackRuns>>
    /\ UNCHANGED <<verifyVars, loadVars, matchVars, allVars, declVars, freshVars, navVars, queryVars, snapVars>>

\* Line 406: self.page.mouse.move(x, y)
HoldMove ==
    /\ hPc = "move"
    /\ hMouse' = Append(hMouse, "move")
    /\ hPc' = "down"
    /\ UNCHANGED <<hCallback, hBox, hCalls, hMark, hPointer, hCallbackRuns, hOutcome>>
    /\ UNCHANGED <<verifyVars, loadVars, matchVars, allVars, declVars, freshVars, navVars, queryVars, snapVars>>

\* Line 407: self.page.mouse.down()
HoldDown ==
    /\ hPc = "down"
    /\ hMouse' = Append(hMouse, "down")
    /\ hPointer' = "down"
    /\ hPc' = "try"
    /\ UNCHANGED <<hCallback, hBox, hCalls, hMark, hCallbackRuns, hOutcome>>
    /\ UNCHANGED <<verifyVars, loadVars, matchVars, allVars, declVars, freshVars, navVars, queryVars, snapVars>>

\* The body without try/finally: a raising callback leaves the function
\* at once, only the normal paths reach mouse.up().
HoldTryBodyNoFinally ==
    /\ hPc = "try"
    /\ hCallbackRuns' = IF hCallback.kind = "none" THEN hCallbackRuns ELSE hCallbackRuns + 1
    /\ hOutcome' = CASE hCallback.kind = "none"    -> [kind |-> "return", value |-> "None"]
                     [] hCallback.kind = "returns" -> [kind |-> "return", value |-> hCallback.value]
                     [] hCallback.kind = "raises"  -> [kind |-> "CallbackError", value |-> "None"]
    /\ hPc' = IF hCallback.kind = "raises" THEN "done" ELSE "finally"
    /\ hMouse' = IF hCallback.kind = "none" THEN hMouse ELSE Append(hMouse, "callback")
    /\ UNCHANGED <<hCallback, hBox, hCalls, hMark, hPointer>>
    /\ UNCHANGED <<verifyVars, loadVars, matchVars, allVars, declVars, freshVars, navVars, queryVars, snapVars>>

\* The try body with `callback()` instead of `return callback()`: the
\* callback's value is dropped and None is returned.
HoldTryBodyDropsValue ==
    /\ hPc = "try"
    /\ hCallbackRuns' = IF hCallback.kind = "none" THEN hCallbackRuns ELSE hCallbackRuns + 1
    /\ hOutcome' = CASE hCallback.kind = "none"    -> [kind |-> "return", value |-> "None"]
                     [] hCallback.kind = "returns" -> [kind |-> "return", value |-> "None"]
                     [] hCallback.kind = "raises"  -> [kind |-> "CallbackError", value |-> "None"]
    /\ hPc' = "finally"
    /\ hMouse' = IF hCallback.kind = "none" THEN hMouse ELSE Append(hMouse, "callback")
    /\ UNCHANGED <<hCallback, hBox, hCalls, hMark, hPointer>>
    /\ UNCHANGED <<verifyVars, loadVars, matchVars, allVars, declVars, freshVars, navVars, queryVars, snapVars>>

\* Lines 408-413, the try body: sleep, then the callback (its value is
\* returned, its exception propagates) or the fixed-duration sleep.
HoldTryBody ==
    /\ hPc = "try"
    /\ hCallbackRuns' = IF hCallback.kind = "none" THEN hCallbackRuns ELSE hCallbackRuns + 1
    /\ hOutcome' = CASE hCallback.kind = "none"    -> [kind |-> "return", value |-> "None"]
                     [] hCallback.kind = "returns" -> [kind |-> "return", value |-> hCallback.value]
                     [] hCallback.kind = "raises"  -> [kind |-> "CallbackError", value |-> "None"]
    /\ hPc' = "finally"
    /\ hMouse' = IF hCallback.kind = "none" THEN hMouse ELSE Append(hMouse, "callback")
    /\ UNCHANGED <<hCallback, hBox, hCalls, hMark, hPointer>>
    /\ UNCHANGED <<verifyVars, loadVars, matchVars, allVars, declVars, freshVars, navVars, queryVars, snapVars>>

\* Lines 414-415: finally: self.page.mouse.up(), then the pending return
\* or exception leaves the function.
HoldFinally ==
    /\ hPc = "finally"
    /\ hMouse' = Append(hMouse, "up")
    /\ hPointer' = "up"
    /\ hPc' = "done"
    /\ UNCHANGED <<hCallback, hBox, hCalls, hMark, hCallbackRuns, hOutcome>>
    /\ UNCHANGED <<verifyVars, loadVars, matchVars, allVars, declVars, freshVars, navVars, queryVars, snapVars>>

-----------------------------------------------------------------------------
(* Fixture loaders: load_component_properties,                              *)
(* load_component_properties_for_variant,                                   *)
(* load_component_properties_by_prefix, load_css_variables_from_file        *)

MaxLines == 2

\* Lines a fixture file may hold, as `for line in f` yields them.
LineChoices ==
    { <<" ", "\n">>,                                             \* blank
      <<"#", "c", "=", "1">>,                                    \* comment
      <<" ", "#", "c", "=", "2">>,                               \* indented comment
      <<"c", "=", "1", "\n">>,
      <<" ", "c", " ", "=", " ", "2", " ", "\n">>,               \* padded duplicate of c
      <<"c", "=", "a", "=", "b">>,                               \* value holding "="
      <<"n", "o", "e", "q">>,                                    \* no "="
      <<"c", "s", "s", "-", "v", "a", "r", ".", "c", "=", "1">>, \* css-var. key
      <<"p", ".", "h", ".", "l", ".", "c", "=", "1">>,
      <<"p", ".", "h", ".", "l", ".", "c", "=", "2", "\n">>,
      <<"P", ".", "h", ".", "l", ".", "c", "=", "3">>,           \* upper-case key
      <<"-", "-", "a", ":", " ", "#", "0", "f", "0", ";", "\n">>,
      <<"-", "-", "a", "=", "#", "f", "0", "0">>,
      <<"-", "-", "b", "=", "u", ":", "v">> }

RECURSIVE SeqsUpTo(_, _)
SeqsUpTo(S, n) ==
    IF n = 0 THEN {<<>>}
    ELSE LET shorter == SeqsUpTo(S, n - 1)
         IN  shorter \cup { Append(q, x) : q \in shorter, x \in S }

\* A file: whether it exists, its lines, and where reading it fails:
\* fault = <<>> (never) or <<n>> (an I/O or decoding exception is raised
\* by open() or by the iteration after n lines were delivered).
Files ==
    { [exists |-> ex, lines |-> ls, fault |-> ft] :
        ex \in BOOLEAN, ls \in SeqsUpTo(LineChoices, MaxLines),
        ft \in {<<>>} \cup { <<n>> : n \in 0..MaxLines } }

\* A missing file has no content; a fault strikes within the file's length.
FileOk(f) ==
    /\ ~f.exists => (f.lines = <<>> /\ f.fault = <<>>)
    /\ f.fault # <<>> => f.fault[1] <= Len(f.lines)

\* The (variant, state, size) arguments callers pass.
VariantArgs ==
    { <<<<"p">>, <<"h">>, <<"l">>>>,
      <<<<"P">>, <<"H">>, <<"L">>>>,
      <<<<"P">>, <<"h">>, <<"l">>>>,
      <<<<"s">>, <<"h">>, <<"l">>>> }

\* The prefix arguments callers pass to load_component_properties_by_prefix.
PrefixArgs ==
    { <<>>,
      <<"p", ".", "h", ".", "l", ".">>,
      <<"c", "s", "s", "-">> }

\* The prefix built from the arguments as passed, without .lower().
VariantPrefixAsPassed(args) ==
    args[1] \o <<".">> \o args[2] \o <<".">> \o args[3] \o <<".">>

\* prefix = f"{variant.lower()}.{state.lower()}.{size.lower()}."
VariantPrefix(args) ==
    Lower(args[1]) \o <<".">> \o Lower(args[2]) \o <<".">> \o Lower(args[3]) \o <<".">>

\* The loop body without `if not key.startswith("css-var.")`.
WholeLineUnfiltered(result, rawLine) ==
    LET line == Strip(rawLine)
        kv   == SplitOnce(line, "=")
    IN  IF line = <<>> \/ StartsWith(line, <<"#">>) THEN result
        ELSE IF Contains(line, "=") THEN DictSet(result, Strip(kv[1]), Strip(kv[2]))
        ELSE result

\* Loop body of load_component_properties (lines 809-816).
WholeLine(result, rawLine) ==
    LET line == Strip(rawLine)
        kv   == SplitOnce(line, "=")
        key  == Strip(kv[1])
        value == Strip(kv[2])
    IN  IF line = <<>> \/ StartsWith(line, <<"#">>) THEN result
        ELSE IF Contains(line, "=")
        THEN IF ~StartsWith(key, sCssVarNs) THEN DictSet(result, key, value) ELSE result
        ELSE result

\* Loop body of load_component_properties_for_variant (lines 856-865).
VariantLine(result, rawLine, prefix) ==
    LET line == Strip(rawLine)
        kv   == SplitOnce(line, "=")
        key  == Strip(kv[1])
        value == Strip(kv[2])
    IN  IF line = <<>> \/ StartsWith(line, <<"#">>) THEN result
        ELSE IF ~Contains(line, "=") THEN result
        ELSE IF StartsWith(key, prefix) THEN DictSet(result, Drop(key, Len(prefix)), value)
        ELSE result

\* Loop body of load_component_properties_by_prefix (lines 897-906).
PrefixLine(result, rawLine, prefix) ==
    LET line == Strip(rawLine)
        kv   == SplitOnce(line, "=")
        key  == Strip(kv[1])
        value == Strip(kv[2])
    IN  IF line = <<>> \/ StartsWith(line, <<"#">>) THEN result
        ELSE IF ~Contains(line, "=") THEN result
        ELSE IF StartsWith(key, prefix) THEN DictSet(result, Drop(key, Len(prefix)), value)
        ELSE result

\* str.rstrip(";")
RECURSIVE RStripSemicolon(_)
RStripSemicolon(s) ==
    IF s # <<>> /\ s[Len(s)] = ";" THEN RStripSemicolon(SubSeq(s, 1, Len(s) - 1)) ELSE s

\* Loop body of load_css_variables_from_file (lines 920-934).
CssFileLine(result, rawLine) ==
    LET line  == Strip(rawLine)
        parts == SplitOnce(line, ":")
        var_name == Strip(parts[1])
        cvalue == Strip(RStripSemicolon(Strip(parts[2])))
        kv    == SplitOnce(line, "=")
        key   == Strip(kv[1])
        value == Strip(kv[2])
    IN  IF line = <<>> \/ StartsWith(line, <<"#">>) THEN result
        ELSE IF Contains(line, ":")
        THEN IF StartsWith(var_name, sDashes) THEN DictSet(result, var_name, cvalue) ELSE result
        ELSE IF Contains(line, "=")
        THEN IF StartsWith(key, sDashes) THEN DictSet(result, key, value) ELSE result
        ELSE result

LoaderLine(fn, result, rawLine, prefix) ==
    CASE fn = "whole"   -> WholeLine(result, rawLine)
      [] fn = "variant" -> VariantLine(result, rawLine, prefix)
      [] fn = "prefix"  -> PrefixLine(result, rawLine, prefix)
      [] fn = "cssfile" -> CssFileLine(result, rawLine)

LoadReturned == [kind |-> "return", logged |-> "none"]

\* A loader that opens the file outside the try block without asking
\* whether it exists: a missing file ends the call in FileNotFoundError.
LoadEnterNoExistsCheck(fn, file, args, prefix, prev) ==
    /\ lFn' = fn
    /\ lFile' = file
    /\ lArgs' = args
    /\ lPrefix' = prefix
    /\ lIdx' = 0
    /\ lResult' = <<>>
    /\ lPrev' = prev
    /\ lPc' = IF file.exists THEN "read" ELSE "done"
    /\ lOutcome' = IF file.exists THEN [kind |-> "none", logged |-> "none"]
                   ELSE [kind |-> "FileNotFoundError", logged |-> "none"]

\* The code of a loader up to and including `if not file.exists(): return {}`.
LoadEnter(fn, file, args, prefix, prev) ==
    /\ lFn' = fn
    /\ lFile' = file
    /\ lArgs' = args
    /\ lPrefix' = prefix
    /\ lIdx' = 0
    /\ lResult' = <<>>
    /\ lPrev' = prev
    /\ lPc' = IF file.exists THEN "read" ELSE "done"
    /\ lOutcome' = IF file.exists THEN [kind |-> "none", logged |-> "none"]
                   ELSE [kind |-> "return", logged |-> "warning"]

NoArgs == <<<<>>, <<>>, <<>>>>

LoadIdle == lPc = "idle"

\* load_component_properties(component_name), lines 799-805
LoadWholeCall ==
    /\ LoadIdle
    /\ \E file \in Files : FileOk(file) /\ LoadEnter("whole", file, NoArgs, <<>>, <<>>)
    /\ UNCHANGED <<verifyVars, holdVars, matchVars, allVars, declVars, freshVars, navVars, queryVars, snapVars>>

\* load_component_properties_for_variant(variant, state, size, ...), lines 842-852
LoadVariantCall ==
    /\ LoadIdle
    /\ \E file \in Files, args \in VariantArgs :
         FileOk(file) /\ LoadEnter("variant", file, args, VariantPrefix(args), <<>>)
    /\ UNCHANGED <<verifyVars, holdVars, matchVars, allVars, declVars, freshVars, navVars, queryVars, snapVars>>

\* The same caller asking again for the same file with arguments that
\* differ from the previous ones only in letter case.
LoadVariantAgain ==
    /\ lPc = "done" /\ lFn = "variant" /\ lPrev = <<>>
    /\ \E args \in VariantArgs :
         /\ args # lArgs
         /\ \A i \in 1..3 : Lower(args[i]) = Lower(lArgs[i])
         /\ LoadEnter("variant", lFile, args, VariantPrefix(args),
                      <<[args |-> lArgs, result |-> lResult]>>)
    /\ UNCHANGED <<verifyVars, holdVars, matchVars, allVars, declVars, freshVars, navVars, queryVars, snapVars>>

\* load_component_properties_by_prefix(component_name, prefix, ...), lines 885-893
LoadPrefixCall ==
    /\ LoadIdle
    /\ \E file \in Files, prefix \in PrefixArgs :
         FileOk(file) /\ LoadEnter("prefix", file, NoArgs, prefix, <<>>)
    /\ UNCHANGED <<verifyVars, holdVars, matchVars, allVars, declVars, freshVars, navVars, queryVars, snapVars>>

\* load_css_variables_from_file(file_path), lines 913-916
LoadCssFileCall ==
    /\ LoadIdle
    /\ \E file \in Files : FileOk(file) /\ LoadEnter("cssfile", file, NoArgs, <<>>, <<>>)
    /\ UNCHANGED <<verifyVars, holdVars, matchVars, allVars, declVars, freshVars, navVars, queryVars, snapVars>>

\* One iteration of `for line in f` inside the try block.
LoadReadLine ==
    /\ lPc = "read" /\ lIdx < Len(lFile.lines) /\ lFile.fault # <<lIdx>>
    /\ lResult' = LoaderLine(lFn, lResult, lFile.lines[lIdx + 1], lPrefix)
    /\ lIdx' = lIdx + 1
    /\ UNCHANGED <<lPc, lFn, lFile, lPrefix, lArgs, lOutcome, lPrev>>
    /\ UNCHANGED <<verifyVars, holdVars, matchVars, allVars, declVars, freshVars, navVars, queryVars, snapVars>>

\* open() or the iteration raises: `except Exception as e: logger.error(...)`,
\* then the statement after the try block, `return properties`.
LoadException ==
    /\ lPc = "read" /\ lFile.fault = <<lIdx>>
    /\ lOutcome' = [kind |-> "return", logged |-> "error"]
    /\ lPc' = "done"
    /\ UNCHANGED <<lFn, lFile, lPrefix, lArgs, lIdx, lResult, lPrev>>
    /\ UNCHANGED <<verifyVars, holdVars, matchVars, allVars, declVars, freshVars, navVars, queryVars, snapVars>>

\* End of file: the with block closes and the dict is returned
\* (load_css_variables_from_file warns first when it found nothing).
LoadEndOfFile ==
    /\ lPc = "read" /\ lIdx = Len(lFile.lines) /\ lFile.fault # <<lIdx>>
    /\ lOutcome' = [kind |-> "return",
                    logged |-> IF lFn = "cssfile" /\ lResult = <<>> THEN "warning" ELSE "none"]
    /\ lPc' = "done"
    /\ UNCHANGED <<lFn, lFile, lPrefix, lArgs, lIdx, lResult, lPrev>>
    /\ UNCHANGED <<verifyVars, holdVars, matchVars, allVars, declVars, freshVars, navVars, queryVars, snapVars>>

\* The call is over: the returned dict is with the caller, nothing is kept.
LoadReturn ==
    /\ lPc = "done"
    /\ lPc' = "idle" /\ lFn' = "none"
    /\ lFile' = [exists |-> FALSE, lines |-> <<>>, fault |-> <<>>]
    /\ lPrefix' = <<>> /\ lArgs' = NoArgs /\ lIdx' = 0 /\ lResult' = <<>>
    /\ lOutcome' = [kind |-> "none", logged |-> "none"] /\ lPrev' = <<>>
    /\ UNCHANGED <<verifyVars, holdVars, matchVars, allVars, declVars, freshVars, navVars, queryVars, snapVars>>

-----------------------------------------------------------------------------
(* Calls of _css_values_match on its own.                                   *)

MaxValueLen == 3

ValueAlphabet == {"0", "1", "p", "x", "%"}

\* Values with a sign, a fraction, padding, upper case, and non-numeric text.
sRgbBlack     == <<"r", "g", "b", "(", "0", ",", " ", "0", ",", " ", "0", ")">>
sRgbaClear    == <<"r", "g", "b", "a", "(", "0", ",", " ", "0", ",", " ", "0", ",", " ", "0", ")">>
sVarAFallback == <<"v", "a", "r", "(", "-", "-", "a", ",", " ", "r", "e", "d", ")">>
sVarAb        == <<"v", "a", "r", "(", "-", "-", "a", "b", ")">>

\* Color sentinels and CSS-variable references, as fixtures and the browser
\* write them.
ReferenceValues == {sRgbBlack, sRgbaClear, sVarA, sVarAFallback, sVarB}

ExtraValues ==
    { <<"0", ".", "0">>, <<"1", ".", "0">>, <<"1", ".">>, <<".", "5">>,
      <<"0", ".", "5", "0", "p", "x">>, <<"-", "0">>, <<"+", "1", "%">>,
      <<" ", "0", " ", "p", "x", " ">>, <<"0", "P", "X">>, <<"1", "0", "p", "x">>,
      <<"1", "0", ".", "0", "%">>, <<"R", "e", "d">>, <<"r", "e", "d">>,
      <<"a", "u", "t", "o">>, <<".">>, <<"-">> }

MatchInputs == SeqsUpTo(ValueAlphabet, MaxValueLen) \cup ExtraValues \cup ReferenceValues

MatchIdle == mFn = "none"

CssValuesMatchCall ==
    /\ MatchIdle
    /\ \E e \in MatchInputs, a \in MatchInputs :
         /\ mFn' = "_css_values_match"
         /\ mOutput' = <<>>
         /\ mExpected' = e
         /\ mActual' = a
         /\ mResult' = IF CssValuesMatch(e, a) THEN "True" ELSE "False"
    /\ UNCHANGED <<verifyVars, holdVars, loadVars, allVars, declVars, freshVars, navVars, queryVars, snapVars>>

\* The boolean is with the caller; nothing is kept.
CssValuesMatchReturn ==
    /\ mFn = "_css_values_match"
    /\ mFn' = "none" /\ mOutput' = <<>>
    /\ mExpected' = <<>> /\ mActual' = <<>> /\ mResult' = "unset"
    /\ UNCHANGED <<verifyVars, holdVars, loadVars, allVars, declVars, freshVars, navVars, queryVars, snapVars>>

-----------------------------------------------------------------------------
(* declared_matches, the comparison of declared color values nested in     *)
(* test_button_variant_properties and test_checkbox_variant_properties      *)

\* str.rstrip(")")
RECURSIVE RStripParen(_)
RStripParen(s) ==
    IF s # <<>> /\ s[Len(s)] = ")" THEN RStripParen(SubSeq(s, 1, Len(s) - 1)) ELSE s

\* evar = e.rstrip(")").rstrip()
ReferenceStem(e) == RStrip(RStripParen(e))

\* The var(--...) branch of declared_matches on stripped e and a.
VarReferenceMatches(e, a) ==
    /\ StartsWith(e, sVarOpen) /\ StartsWith(a, sVarOpen)
    /\ \/ a = ReferenceStem(e) \o <<")">>
       \/ StartsWith(a, ReferenceStem(e) \o <<",">>)

DeclaredMatches(expected_val, actual) ==
    LET e == Strip(expected_val)
        a == Strip(actual)
    IN  \/ e = a
        \/ VarReferenceMatches(e, a)
        \/ e = sRgbBlack /\ a = sRgbaClear
        \/ a = sRgbBlack /\ e = sRgbaClear

\* Declared values: what a fixture holds and what get_declared_style returns.
DeclaredValues ==
    { sVarA, sVarAFallback, sVarAb, sVarB, <<"v", "a", "r", "(", "-", "-", "a", ",", "r", "e", "d", ")">>, <<" ", "v", "a", "r", "(", "-", "-", "a", ")", " ">>,
      <<"v", "a", "r", "(", "-", "-", "b", ",", " ", "r", "e", "d", ")">>, <<"V", "A", "R", "(", "-", "-", "a", ")">>, sRgbBlack, sRgbaClear, <<"r", "g", "b", "a", "(", "0", ",", "0", ",", "0", ",", "0", ")">>,
      sRed, sEmpty }

DeclaredMatchesCall ==
    /\ MatchIdle
    /\ \E e \in DeclaredValues, a \in DeclaredValues :
         /\ mFn' = "declared_matches"
         /\ mOutput' = <<>>
         /\ mExpected' = e
         /\ mActual' = a
         /\ mResult' = IF DeclaredMatches(e, a) THEN "True" ELSE "False"
    /\ UNCHANGED <<verifyVars, holdVars, loadVars, allVars, declVars, freshVars, navVars, queryVars, snapVars>>

DeclaredMatchesReturn ==
    /\ mFn = "declared_matches"
    /\ mFn' = "none" /\ mOutput' = <<>>
    /\ mExpected' = <<>> /\ mActual' = <<>> /\ mResult' = "unset"
    /\ UNCHANGED <<verifyVars, holdVars, loadVars, allVars, declVars, freshVars, navVars, queryVars, snapVars>>

-----------------------------------------------------------------------------
(* Calls of the color canonicalizer _norm_color on a pair of values, as in  *)
(* browser_n = _norm_color(browser_value);                                  *)
(* predefined_n = _norm_color(predefined_value)                             *)

HexSample == {"0", "8", "f"}

\* #abc
Hex3Colors == { <<"#", a, b, c>> : a \in HexSample, b \in HexSample, c \in HexSample }

\* #aabbcc, the six-digit spelling of #abc
Hex6Doubled == { <<"#", a, a, b, b, c, c>> : a \in HexSample, b \in HexSample, c \in HexSample }

\* six-digit colors whose pairs need not be doubled digits
Hex6Free == { <<"#", a, b, c, d, e, f>> :
                a \in {"0", "f"}, b \in {"0", "f"}, c \in {"0", "f"},
                d \in {"0", "f"}, e \in {"0", "f"}, f \in {"0", "f"} }

HexUpperCase == { <<"#", "0", "F", "0">>, <<"#", "0", "0", "F", "F", "0", "0">>, <<"#", "F", "f", "0", "0", "0", "0">>, <<" ", "#", "f", "0", "0", " ">> }

\* An rgb()/rgba() value built from its parts: function name, the three
\* channels, the separator between channels and the text after the third.
RgbForm(fname, r, g, b, sep, rest) ==
    [text |-> fname \o <<"(">> \o r \o sep \o g \o sep \o b \o rest,
     r |-> r, g |-> g, b |-> b, sep |-> sep]

ChannelTexts == { <<"0">>, <<"2", "5", "5">>, <<"1", "2", "8">> }

\* rgb(r, g, b), rgb(r,g,b), rgba(r, g, b, a): channels separated by a comma
\* and optional blanks.
CommaRgbForms ==
    { RgbForm(<<"r", "g", "b">>, r, g, b, sep, <<")">>) :
        r \in ChannelTexts, g \in {<<"2", "5", "5">>}, b \in {<<"0">>}, sep \in {<<",", " ">>, <<",">>, <<",", " ", " ">>} }
    \cup
    { RgbForm(<<"r", "g", "b", "a">>, r, g, b, <<",", " ">>, rest) :
        r \in {<<"0">>}, g \in ChannelTexts, b \in {<<"0">>},
        rest \in {<<",", " ", "0", ".", "5", ")">>, <<",", " ", "0", ")">>, <<",", "1", ")">>} }
    \cup
    { RgbForm(<<"R", "G", "B">>, <<"0">>, <<"2", "5", "5">>, <<"0">>, <<",", " ">>, <<")">>),
      RgbForm(<<" ", "r", "g", "b", "a">>, <<"0">>, <<"0">>, <<"0">>, <<",", " ">>, <<",", " ", "0", ")", " ">>) }

\* rgb(r g b) and rgb(r g b / a): channels separated by blanks.
SpaceRgbForms ==
    { RgbForm(<<"r", "g", "b">>, <<"0">>, <<"2", "5", "5">>, <<"0">>, <<" ">>, <<")">>),
      RgbForm(<<"r", "g", "b", "a">>, <<"0">>, <<"2", "5", "5">>, <<"0">>, <<" ">>, <<" ", "/", " ", "0", ".", "5", ")">>) }

RgbForms == CommaRgbForms \cup SpaceRgbForms

OtherColorTexts == { sRed, sEmpty, <<"#", "f", "o", "o", "t", "e", "r">>, <<"#", "f", "f">>, <<"r", "g", "b">> }

ColorInputs ==
    Hex3Colors \cup Hex6Doubled \cup Hex6Free \cup HexUpperCase
    \cup { f.text : f \in RgbForms } \cup OtherColorTexts

NormColorCall ==
    /\ MatchIdle
    /\ \E x \in ColorInputs, y \in ColorInputs :
         /\ mFn' = "_norm_color"
         /\ mExpected' = x
         /\ mActual' = y
         /\ mOutput' = <<NormColor(Str(x)), NormColor(Str(y))>>
         /\ mResult' = "unset"
    /\ UNCHANGED <<verifyVars, holdVars, loadVars, allVars, declVars, freshVars, navVars, queryVars, snapVars>>

\* Both values are with the caller.
NormColorReturn ==
    /\ mFn = "_norm_color"
    /\ mFn' = "none" /\ mOutput' = <<>>
    /\ mExpected' = <<>> /\ mActual' = <<>> /\ mResult' = "unset"
    /\ UNCHANGED <<verifyVars, holdVars, loadVars, allVars, declVars, freshVars, navVars, queryVars, snapVars>>

-----------------------------------------------------------------------------
(* PropertyChecker.verify_all_css_variables                                 *)

AllNoOutcome == [kind |-> "none", mismatches |-> 0, missing |-> 0]

MaxVars == 2

sTwPrefix == <<"-", "-", "t", "w", "-">>
sVarKeyTw == <<"-", "-", "t", "w", "-", "c">>
sVarKeyX  == <<"-", "-", "x">>
sFooter   == <<"#", "f", "o", "o", "t", "e", "r">>
sHash00FF00 == <<"#", "0", "0", "F", "F", "0", "0">>

\* Variables css-variables.properties may declare, and their values.
FixtureNames == {sVarKeyA, sVarKeyB, sVarKeyTw}
FixtureValueChoices == {sHash0f0, sRed, sFooter}

\* properties_vars: ordered dicts of at most MaxVars distinct variables.
RECURSIVE FixturesUpTo(_)
FixturesUpTo(n) ==
    IF n = 0 THEN {<<>>}
    ELSE LET shorter == FixturesUpTo(n - 1)
         IN  shorter \cup
             { Append(d, [k |-> name, v |-> value]) :
                 d \in { q \in shorter : Len(q) = n - 1 },
                 name \in FixtureNames, value \in FixtureValueChoices }

AllFixtures == { d \in FixturesUpTo(MaxVars) : \A i, j \in 1..Len(d) : d[i].k = d[j].k => i = j }

\* Custom properties the :root extraction may return, in document order,
\* and the values the browser reports.
RootNames == <<sVarKeyA, sVarKeyTw, sVarKeyX>>
BrowserValueChoices == {sHash00FF00, sRed, sFooter}

RECURSIVE RootVarsFrom(_)
RootVarsFrom(i) ==
    IF i > Len(RootNames) THEN {<<>>}
    ELSE LET rest == RootVarsFrom(i + 1)
         IN  rest \cup { <<[k |-> RootNames[i], v |-> value]>> \o r :
                           value \in BrowserValueChoices, r \in rest }

AllRootVars == RootVarsFrom(1)

\* What the per-variable getPropertyValue(varName) evaluation gives: the
\* trimmed value, or None (null result or an exception).
FallbackResults == {Null} \cup { Str(value) : value \in BrowserValueChoices }

\* browser_vars = {k: v for k, v in browser_vars.items() if not k.startswith("--tw-")}
WithoutTailwind(rootVars) == SelectSeq(rootVars, LAMBDA en : ~StartsWith(en.k, sTwPrefix))

\* Lines 1227-1245: what happens to one fixture variable with browser value
\* bv (None or a string) and predefined value pv.
AllClassify(bv, pv) ==
    IF Falsy(bv) THEN "missing_in_browser"
    ELSE IF ~NormColor(bv).ok \/ ~NormColor(Str(pv)).ok THEN "ValueError"
    ELSE IF \/ NormColor(bv).v = NormColor(Str(pv)).v
            \/ NormHex(bv) = NormHex(Str(pv))
            \/ Lower(Strip(StrOf(bv))) = Lower(Strip(pv))
    THEN "matched"
    ELSE "value_mismatch"

\* `if mismatches or missing_in_browser or missing_in_properties:`
VerifyAllFailedOnExtras(mismatches, missingInBrowser, missingInProperties) ==
    mismatches # <<>> \/ missingInBrowser # <<>> \/ missingInProperties # <<>>

\* `if mismatches or missing_in_browser:`
VerifyAllFailed(mismatches, missingInBrowser, missingInProperties) ==
    mismatches # <<>> \/ missingInBrowser # <<>>

\* Lines 1179-1192: navigation or wait, :root extraction, "--tw-" filter,
\* load_css_variables().
VerifyAllCall ==
    /\ aPc = "idle"
    /\ \E needs_navigation \in BOOLEAN, rootVars \in AllRootVars, fixture \in AllFixtures :
         /\ aNavigated' = needs_navigation
         /\ aRootVars' = rootVars
         /\ aBrowser' = WithoutTailwind(rootVars)
         /\ aFixture' = fixture
    /\ aPc' = "loop" /\ aIdx' = 0 /\ aSeen' = <<>>
    /\ aMismatches' = <<>> /\ aMissingInBrowser' = <<>> /\ aMatched' = <<>>
    /\ aMissingInProperties' = <<>> /\ aOutcome' = AllNoOutcome
    /\ UNCHANGED <<verifyVars, holdVars, loadVars, matchVars, declVars, freshVars, navVars, queryVars, snapVars>>

\* One iteration of `for var_name, predefined_value in properties_vars.items()`.
VerifyAllIterate ==
    /\ aPc = "loop" /\ aIdx < Len(aFixture)
    /\ \E fallback \in FallbackResults :
         LET var_name == aFixture[aIdx + 1].k
             predefined_value == aFixture[aIdx + 1].v
             browser_value == IF DictHas(aBrowser, var_name)
                              THEN Str(DictGet(aBrowser, var_name))
                              ELSE fallback
             class == AllClassify(browser_value, predefined_value)
         IN  /\ aSeen' = Append(aSeen, [name |-> var_name, value |-> browser_value])
             /\ aMatched' = IF class = "matched"
                            THEN DictSet(aMatched, var_name,
                                         [browser_value |-> browser_value.s,
                                          properties_value |-> predefined_value])
                            ELSE aMatched
             /\ aMismatches' = IF class = "value_mismatch"
                               THEN Append(aMismatches,
                                           [variable |-> var_name,
                                            browser_value |-> browser_value.s,
                                            properties_value |-> predefined_value])
                               ELSE aMismatches
             /\ aMissingInBrowser' = IF class = "missing_in_browser"
                                     THEN DictSet(aMissingInBrowser, var_name, predefined_value)
                                     ELSE aMissingInBrowser
             /\ aPc' = IF class = "ValueError" THEN "done" ELSE "loop"
             /\ aOutcome' = IF class = "ValueError"
                            THEN [kind |-> "ValueError", mismatches |-> 0, missing |-> 0]
                            ELSE aOutcome
    /\ aIdx' = aIdx + 1
    /\ UNCHANGED <<aNavigated, aRootVars, aBrowser, aFixture, aMissingInProperties>>
    /\ UNCHANGED <<verifyVars, holdVars, loadVars, matchVars, declVars, freshVars, navVars, queryVars, snapVars>>

\* Lines 1246-1261: missing_in_properties, then the aggregated failure or
\* the returned report.
VerifyAllFinish ==
    /\ aPc = "loop" /\ aIdx = Len(aFixture)
    /\ aMissingInProperties' = SelectSeq(aBrowser, LAMBDA en : ~DictHas(aFixture, en.k))
    /\ aOutcome' = IF VerifyAllFailed(aMismatches, aMissingInBrowser, aMissingInProperties')
                   THEN [kind |-> "AssertionError", mismatches |-> Len(aMismatches),
                         missing |-> Len(aMissingInBrowser)]
                   ELSE [kind |-> "return", mismatches |-> 0, missing |-> 0]
    /\ aPc' = "done"
    /\ UNCHANGED <<aNavigated, aRootVars, aBrowser, aFixture, aIdx, aSeen, aMismatches,
                   aMissingInBrowser, aMatched>>
    /\ UNCHANGED <<verifyVars, holdVars, loadVars, matchVars, declVars, freshVars, navVars, queryVars, snapVars>>

\* The report or the exception is with the caller.
VerifyAllReturn ==
    /\ aPc = "done"
    /\ aPc' = "idle" /\ aNavigated' = FALSE
    /\ aRootVars' = <<>> /\ aBrowser' = <<>> /\ aFixture' = <<>> /\ aIdx' = 0 /\ aSeen' = <<>>
    /\ aMismatches' = <<>> /\ aMissingInBrowser' = <<>> /\ aMatched' = <<>>
    /\ aMissingInProperties' = <<>> /\ aOutcome' = AllNoOutcome
    /\ UNCHANGED <<verifyVars, holdVars, loadVars, matchVars, declVars, freshVars, navVars, queryVars, snapVars>>

-----------------------------------------------------------------------------
(* PropertyChecker.get_declared_style                                       *)

NoDocument == [present |-> FALSE, element |-> FALSE, sheets |-> <<>>, inline |-> <<>>]

MaxRules == 2

sBlue   == <<"b", "l", "u", "e">>
sGreen  == <<"v", "a", "r", "(", "-", "-", "g", ")">>
sDeep   == <<"1", "0", "p", "x">>
sLast   == <<"#", "f", "f", "f">>
sInline == <<"b", "l", "a", "c", "k">>

\* A CSSStyleRule: whether el.matches(r.selectorText) is true, false or
\* throws, and r.style.getPropertyValue(prop) ("" when the rule does not set
\* the property).
StyleRule(matches, value) ==
    [kind |-> "style", matches |-> matches, value |-> value, rules |-> <<>>]

\* A grouping rule (@media, @supports, @layer): no selectorText, own cssRules.
GroupRule(rules) == [kind |-> "group", matches |-> "no", value |-> <<>>, rules |-> rules]

\* A rule with neither selectorText nor cssRules (@font-face, @import).
OtherRule == [kind |-> "other", matches |-> "no", value |-> <<>>, rules |-> <<>>]

RuleChoices ==
    { StyleRule("yes", sRed), StyleRule("yes", sBlue), StyleRule("yes", sEmpty),
      StyleRule("no", sRed), StyleRule("throws", sRed),
      GroupRule(<<StyleRule("yes", sGreen)>>),
      GroupRule(<<StyleRule("no", sGreen), OtherRule>>),
      GroupRule(<<GroupRule(<<StyleRule("yes", sDeep)>>), StyleRule("yes", sEmpty)>>),
      OtherRule }

\* A style sheet: readable = FALSE when reading sheet.cssRules throws
\* (a cross-origin sheet).
Sheet(readable, rules) == [readable |-> readable, rules |-> rules]

\* Sheets that follow the first one in doc.styleSheets.
LaterSheets ==
    { <<>>,
      <<Sheet(FALSE, <<StyleRule("yes", sLast)>>)>>,
      <<Sheet(TRUE, <<StyleRule("yes", sLast)>>)>>,
      <<Sheet(FALSE, <<>>), Sheet(TRUE, <<GroupRule(<<StyleRule("no", sLast)>>)>>)>> }

\* The story document as the script sees it: present = the iframe has a
\* contentDocument, element = doc.querySelector(selector) found the element,
\* inline = el.style.getPropertyValue(prop).
Documents ==
    { [present |-> p, element |-> p /\ e, sheets |-> <<Sheet(TRUE, rules)>> \o later,
       inline |-> inl] :
        p \in BOOLEAN, e \in BOOLEAN, rules \in SeqsUpTo(RuleChoices, MaxRules),
        later \in LaterSheets, inl \in {sEmpty, sInline} }

\* `if (v) value = v` with the assignment only while nothing is recorded.
RecordValueFirstWins(value, v) == IF value = <<>> THEN v ELSE value

\* `if (v) value = v;`
RecordValue(value, v) == IF v # <<>> THEN v ELSE value

\* function collectRules(sheet): the loop over sheet.cssRules, carrying the
\* outer variable `value`.
RECURSIVE CollectRules(_, _)
CollectRules(rules, value) ==
    IF rules = <<>> THEN value
    ELSE CollectRules(Tail(rules),
            IF Head(rules).kind = "style"
            THEN IF Head(rules).matches = "yes"
                 THEN RecordValue(value, Head(rules).value)
                 ELSE value
            ELSE IF Head(rules).kind = "group"
            THEN CollectRules(Head(rules).rules, value)
            ELSE value)

\* for (let i = 0; i < doc.styleSheets.length; i++) collectRules(doc.styleSheets[i]);
RECURSIVE CollectSheets(_, _)
CollectSheets(sheets, value) ==
    IF sheets = <<>> THEN value
    ELSE CollectSheets(Tail(sheets),
            IF Head(sheets).readable THEN CollectRules(Head(sheets).rules, value) ELSE value)

\* The script run by _evaluate_in_story: None for a missing document.
DeclaredStyleScript(doc) ==
    IF ~doc.present THEN Null
    ELSE IF ~doc.element THEN Str(<<>>)
    ELSE Str(RecordValue(CollectSheets(doc.sheets, <<>>), doc.inline))

\* return self._evaluate_in_story(...) or ""
GetDeclaredStyle(doc) ==
    IF Falsy(DeclaredStyleScript(doc)) THEN <<>> ELSE DeclaredStyleScript(doc).s

GetDeclaredStyleCall ==
    /\ dPc = "idle"
    /\ \E doc \in Documents :
         /\ dDocument' = doc
         /\ dResult' = GetDeclaredStyle(doc)
    /\ dPc' = "done"
    /\ UNCHANGED <<verifyVars, holdVars, loadVars, matchVars, allVars, freshVars, navVars, queryVars, snapVars>>

\* The string is with the caller.
GetDeclaredStyleReturn ==
    /\ dPc = "done"
    /\ dPc' = "idle" /\ dDocument' = NoDocument /\ dResult' = <<>>
    /\ UNCHANGED <<verifyVars, holdVars, loadVars, matchVars, allVars, freshVars, navVars, queryVars, snapVars>>

-----------------------------------------------------------------------------
(* Successive verification calls and the fixture files they read.          *)

\* css-variables.properties in components/ (base.py 943) and a file a test
\* points the tester at (test_theme_palette.py 47).
FixturePaths == {"css-variables.properties", "colors-light.properties"}

\* Lines the CSS variable files hold in this part.
FreshLines ==
    { <<"-", "-", "a", ":", " ", "#", "0", "f", "0", ";", "\n">>,
      <<"-", "-", "a", "=", "#", "f", "0", "0">> }

\* What a path may hold: no file, or a readable file of up to MaxLines lines.
FreshFiles ==
    { [exists |-> FALSE, lines |-> <<>>, fault |-> <<>>] } \cup
    { [exists |-> TRUE, lines |-> ls, fault |-> <<>>] : ls \in SeqsUpTo(FreshLines, MaxLines) }

\* `for line in f` of load_css_variables_from_file over all of the lines.
RECURSIVE CssFileLines(_, _)
CssFileLines(result, lines) ==
    IF lines = <<>> THEN result
    ELSE CssFileLines(CssFileLine(result, Head(lines)), Tail(lines))

\* load_css_variables_from_file(file_path) on a readable or missing file.
LoadCssVariablesFromFile(file) ==
    IF ~file.exists THEN <<>> ELSE CssFileLines(<<>>, file.lines)

\* The path load_css_variables() reads: the tester's file when it is set
\* (test_theme_palette.py 26-29), components/css-variables.properties else.
CssVariablesPath(override) ==
    IF override # <<>> THEN override[1] ELSE "css-variables.properties"

\* A loader that hands out again what the call before was given.
LoadCssVariablesCached(disk, override, prev) ==
    IF prev # <<>> THEN prev[1].expected
    ELSE LoadCssVariablesFromFile(disk[CssVariablesPath(override)])

\* self.load_css_variables(): opens and parses the file on every call;
\* nothing of an earlier call is consulted.
LoadCssVariables(disk, override, prev) ==
    LoadCssVariablesFromFile(disk[CssVariablesPath(override)])

\* Somebody edits a fixture file while no verification is running.
FixtureFileWrite ==
    /\ fPc = "idle"
    /\ \E p \in FixturePaths, file \in FreshFiles :
         /\ file # fDisk[p]
         /\ fDisk' = [fDisk EXCEPT ![p] = file]
    /\ UNCHANGED <<fOverride, fPc, fFn, fExpected, fPrev>>
    /\ UNCHANGED <<verifyVars, holdVars, loadVars, matchVars, allVars, declVars, navVars, queryVars, snapVars>>

\* component._css_properties_file = ... (test_theme_palette.py 47), or the
\* attribute left at its class default None.
SetCssPropertiesFile ==
    /\ fPc = "idle"
    /\ \E o \in {<<>>, <<"colors-light.properties">>} :
         o # fOverride /\ fOverride' = o
    /\ UNCHANGED <<fDisk, fPc, fFn, fExpected, fPrev>>
    /\ UNCHANGED <<verifyVars, holdVars, loadVars, matchVars, allVars, declVars, navVars, queryVars, snapVars>>

\* verify_all_css_variables (line 1190) or verify_component_css_variables
\* (line 1027) reaches `self.load_css_variables()`.
FreshVerifyCall ==
    /\ fPc = "idle"
    /\ \E fn \in {"all", "component"} : fFn' = fn
    /\ fExpected' = LoadCssVariables(fDisk, fOverride, fPrev)
    /\ fPc' = "verifying"
    /\ UNCHANGED <<fDisk, fOverride, fPrev>>
    /\ UNCHANGED <<verifyVars, holdVars, loadVars, matchVars, allVars, declVars, navVars, queryVars, snapVars>>

\* The verifier ends; its local dict is gone with it.
FreshVerifyReturn ==
    /\ fPc = "verifying"
    /\ fPrev' = <<[path |-> CssVariablesPath(fOverride),
                   file |-> fDisk[CssVariablesPath(fOverride)],
                   expected |-> fExpected]>>
    /\ fPc' = "idle" /\ fFn' = "none" /\ fExpected' = <<>>
    /\ UNCHANGED <<fDisk, fOverride>>
    /\ UNCHANGED <<verifyVars, holdVars, loadVars, matchVars, allVars, declVars, navVars, queryVars, snapVars>>

-----------------------------------------------------------------------------
(* StorybookBase.navigate_to_story: the waits it issues.                    *)

\* min(self.timeout, 10000) of page.goto
GotoCap == 10000
\* min(self.timeout - 5000, 20000) of wait_for_load_state("networkidle")
IdleMargin == 5000
IdleCap == 20000
\* wait_for_selector("body" / "iframe", timeout=10000)
UiWait == 10000
\* wait_ms = min(self.timeout, 8000)
SelectorCap == 8000

\* Values of storybook.timeout / STORYBOOK_TIMEOUT a configuration holds
\* (milliseconds; the shipped default is 10000).
ConfiguredTimeouts == {1000, 5000, 5001, 8000, 10000, 30000}

Min(a, b) == IF a <= b THEN a ELSE b

GotoTimeout(timeout) == Min(timeout, GotoCap)

NetworkIdleTimeout(timeout) == Min(timeout - IdleMargin, IdleCap)

SelectorTimeout(timeout) == Min(timeout, SelectorCap)

NavIdle == nPc = "idle"

\* navigate_to_story(...) up to the try block; self.timeout was set from
\* config.STORYBOOK_TIMEOUT at construction.
NavigateCall ==
    /\ NavIdle
    /\ \E t \in ConfiguredTimeouts, sel \in BOOLEAN :
         nTimeout' = t /\ nSelector' = sel
    /\ nPc' = "goto" /\ nWaits' = <<>> /\ nIdleWarned' = FALSE /\ nOutcome' = "none"
    /\ UNCHANGED <<verifyVars, holdVars, loadVars, matchVars, allVars, declVars, freshVars, queryVars, snapVars>>

\* page.goto(url, wait_until="domcontentloaded", timeout=...): it returns,
\* or it raises and the except block re-raises.
NavGoto ==
    /\ nPc = "goto"
    /\ nWaits' = Append(nWaits, [wait |-> "goto", timeout |-> GotoTimeout(nTimeout)])
    /\ \E ok \in BOOLEAN :
         /\ nPc' = IF ok THEN "networkidle" ELSE "done"
         /\ nOutcome' = IF ok THEN "none" ELSE "raised"
    /\ UNCHANGED <<nTimeout, nSelector, nIdleWarned>>
    /\ UNCHANGED <<verifyVars, holdVars, loadVars, matchVars, allVars, declVars, freshVars, queryVars, snapVars>>

\* page.wait_for_load_state("networkidle", timeout=...): an exception is
\* logged as a warning and navigation goes on.
NavNetworkIdle ==
    /\ nPc = "networkidle"
    /\ nWaits' = Append(nWaits, [wait |-> "networkidle",
                                 timeout |-> NetworkIdleTimeout(nTimeout)])
    /\ \E ok \in BOOLEAN : nIdleWarned' = ~ok
    /\ nPc' = "body"
    /\ UNCHANGED <<nTimeout, nSelector, nOutcome>>
    /\ UNCHANGED <<verifyVars, holdVars, loadVars, matchVars, allVars, declVars, freshVars, queryVars, snapVars>>

\* page.wait_for_selector("body", timeout=10000)
NavWaitBody ==
    /\ nPc = "body"
    /\ nWaits' = Append(nWaits, [wait |-> "body", timeout |-> UiWait])
    /\ \E ok \in BOOLEAN :
         /\ nPc' = IF ok THEN "iframe" ELSE "done"
         /\ nOutcome' = IF ok THEN "none" ELSE "raised"
    /\ UNCHANGED <<nTimeout, nSelector, nIdleWarned>>
    /\ UNCHANGED <<verifyVars, holdVars, loadVars, matchVars, allVars, declVars, freshVars, queryVars, snapVars>>

\* page.wait_for_selector("iframe", timeout=10000)
NavWaitIframe ==
    /\ nPc = "iframe"
    /\ nWaits' = Append(nWaits, [wait |-> "iframe", timeout |-> UiWait])
    /\ \E ok \in BOOLEAN :
         /\ nPc' = IF ~ok THEN "done" ELSE IF nSelector THEN "selector" ELSE "done"
         /\ nOutcome' = IF ~ok THEN "raised" ELSE IF nSelector THEN "none" ELSE "returned"
    /\ UNCHANGED <<nTimeout, nSelector, nIdleWarned>>
    /\ UNCHANGED <<verifyVars, holdVars, loadVars, matchVars, allVars, declVars, freshVars, queryVars, snapVars>>

\* if wait_for_selector: ...first.wait_for(state="visible", timeout=wait_ms)
NavWaitSelector ==
    /\ nPc = "selector"
    /\ nWaits' = Append(nWaits, [wait |-> "selector", timeout |-> SelectorTimeout(nTimeout)])
    /\ \E ok \in BOOLEAN : nOutcome' = IF ok THEN "returned" ELSE "raised"
    /\ nPc' = "done"
    /\ UNCHANGED <<nTimeout, nSelector, nIdleWarned>>
    /\ UNCHANGED <<verifyVars, holdVars, loadVars, matchVars, allVars, declVars, freshVars, queryVars, snapVars>>

\* The call is over.
NavReturn ==
    /\ nPc = "done"
    /\ nPc' = "idle" /\ nTimeout' = 0 /\ nSelector' = FALSE /\ nWaits' = <<>>
    /\ nIdleWarned' = FALSE /\ nOutcome' = "none"
    /\ UNCHANGED <<verifyVars, holdVars, loadVars, matchVars, allVars, declVars, freshVars, queryVars, snapVars>>

-----------------------------------------------------------------------------
(* StorybookBase.build_storybook_args_query                                 *)

MaxArgs == 2

\* Keys of story args.
ArgKeys == { <<"a">>, <<"b", " ", "c">>, <<"d">> }

\* Values of story args: booleans, strings, non-negative ints and None.
ArgBool(b) == [kind |-> "bool", b |-> b, s |-> <<>>, n |-> 0]
ArgStr(s)  == [kind |-> "str", b |-> FALSE, s |-> s, n |-> 0]
ArgInt(n)  == [kind |-> "int", b |-> FALSE, s |-> <<>>, n |-> n]
ArgNone    == [kind |-> "none", b |-> FALSE, s |-> <<>>, n |-> 0]

ArgValues ==
    { ArgBool(b) : b \in BOOLEAN } \cup
    { ArgStr(s) : s \in SeqsUpTo({"x", " ", "+"}, 2) } \cup
    { ArgInt(n) : n \in {0, 1, 42} } \cup
    { ArgNone }

\* Dicts of up to n entries with distinct keys, in insertion order.
RECURSIVE ArgMapsUpTo(_)
ArgMapsUpTo(n) ==
    IF n = 0 THEN {<<>>}
    ELSE LET shorter == ArgMapsUpTo(n - 1)
         IN  shorter \cup
             { Append(d, [k |-> k, v |-> v]) :
                 d \in { e \in shorter : Len(e) = n - 1 },
                 k \in ArgKeys, v \in ArgValues }

ArgMaps == { d \in ArgMapsUpTo(MaxArgs) : \A i, j \in 1..Len(d) : d[i].k = d[j].k => i = j }

\* value.replace(" ", "+")
RECURSIVE SpacesToPlus(_)
SpacesToPlus(s) ==
    IF s = <<>> THEN <<>>
    ELSE <<IF Head(s) = " " THEN "+" ELSE Head(s)>> \o SpacesToPlus(Tail(s))

\* The value text with a string value taken as it is.
ArgValueTextVerbatim(value) ==
    CASE value.kind = "bool" -> IF value.b THEN <<"!", "t", "r", "u", "e">>
                                ELSE <<"!", "f", "a", "l", "s", "e">>
      [] value.kind = "str"  -> value.s
      [] value.kind = "int"  -> IntToStr(value.n)
      [] value.kind = "none" -> <<"n", "u", "l", "l">>

\* vstr of the loop body (lines 62-71); quote(json.dumps(None), safe="")
\* is "null".
ArgValueText(value) ==
    CASE value.kind = "bool" -> IF value.b THEN <<"!", "t", "r", "u", "e">>
                                ELSE <<"!", "f", "a", "l", "s", "e">>
      [] value.kind = "str"  -> SpacesToPlus(value.s)
      [] value.kind = "int"  -> IntToStr(value.n)
      [] value.kind = "none" -> <<"n", "u", "l", "l">>

\* sep.join(parts)
RECURSIVE Join(_, _)
Join(sep, parts) ==
    IF parts = <<>> THEN <<>>
    ELSE IF Len(parts) = 1 THEN parts[1]
    ELSE parts[1] \o sep \o Join(sep, Tail(parts))

\* parts after the loop: f"{key}:{vstr}" per item, in dict order.
ArgParts(args) == [i \in 1..Len(args) |-> args[i].k \o <<":">> \o ArgValueText(args[i].v)]

\* build_storybook_args_query(args)
BuildStorybookArgsQuery(args) ==
    IF args = <<>> THEN <<>> ELSE Join(<<";">>, ArgParts(args))

BuildArgsQueryCall ==
    /\ qPc = "idle"
    /\ \E args \in ArgMaps :
         qArgs' = args /\ qResult' = BuildStorybookArgsQuery(args)
    /\ qPc' = "done"
    /\ UNCHANGED <<verifyVars, holdVars, loadVars, matchVars, allVars, declVars, freshVars,
                   navVars, snapVars>>

BuildArgsQueryReturn ==
    /\ qPc = "done"
    /\ qPc' = "idle" /\ qArgs' = <<>> /\ qResult' = <<>>
    /\ UNCHANGED <<verifyVars, holdVars, loadVars, matchVars, allVars, declVars, freshVars,
                   navVars, snapVars>>

-----------------------------------------------------------------------------
(* SnapshotTester: save_snapshot, load_snapshot, compare_snapshot,          *)
(* _find_differences, assert_snapshot (framework/snapshot.py)               *)

\* Python values of snapshot data: strings, None and dicts (ordered:
\* sequence of [k, v]).
PyStr(a)  == [t |-> "str", a |-> a, d |-> <<>>]
PyNone    == [t |-> "none", a |-> "", d |-> <<>>]
PyDict(d) == [t |-> "dict", a |-> "", d |-> d]

kState     == <<"s", "t", "a", "t", "e">>
kTimestamp == <<"t", "i", "m", "e", "s", "t", "a", "m", "p">>
kHtml      == <<"h", "t", "m", "l">>
kUrl       == <<"u", "r", "l">>
kTitle     == <<"t", "i", "t", "l", "e">>

Item(k, v) == [k |-> k, v |-> v]

\* Values of the "state" entry of a snapshot: get_component_state() dicts,
\* and a string.
StateValues ==
    { PyStr("a"),
      PyDict(<<Item(kUrl, PyStr("a"))>>),
      PyDict(<<Item(kUrl, PyStr("b"))>>),
      PyDict(<<Item(kUrl, PyStr("a")), Item(kTitle, PyStr("a"))>>),
      PyDict(<<Item(kTitle, PyStr("a")), Item(kUrl, PyStr("a"))>>) }

\* One optional entry of a dict.
Optional(k, values) == {<<>>} \cup { <<Item(k, v)>> : v \in values }

\* Snapshot dicts as capture_snapshot builds them (lines 41-54): state and
\* timestamp, html when asked for; entries may also be absent in a stored
\* baseline of another version.
Snapshots ==
    { st \o ts \o ht :
        st \in Optional(kState, StateValues),
        ts \in Optional(kTimestamp, {PyStr("a"), PyStr("b")}),
        ht \in Optional(kHtml, {PyStr("a"), PyStr("b")}) }

\* The snapshots the store scenarios work with.
FewSnapshots ==
    { <<Item(kState, PyDict(<<Item(kUrl, PyStr(u))>>)), Item(kTimestamp, PyStr(ts))>> :
        u \in {"a", "b"}, ts \in {"a", "b"} }

\* json.dump(value): the JSON document written to the file.
RECURSIVE JsonDump(_)
JsonDump(v) ==
    CASE v.t = "str"  -> [j |-> "string", a |-> v.a, m |-> <<>>]
      [] v.t = "none" -> [j |-> "null", a |-> "", m |-> <<>>]
      [] v.t = "dict" -> [j |-> "object", a |-> "",
                          m |-> [i \in 1..Len(v.d) |->
                                   [name |-> v.d[i].k, value |-> JsonDump(v.d[i].v)]]]

\* json.load(f): the Python value of a JSON document.
RECURSIVE JsonLoad(_)
JsonLoad(doc) ==
    CASE doc.j = "string" -> PyStr(doc.a)
      [] doc.j = "null"   -> PyNone
      [] doc.j = "object" -> PyDict([i \in 1..Len(doc.m) |->
                                       Item(doc.m[i].name, JsonLoad(doc.m[i].value))])

\* story_path.replace("--", "/")
RECURSIVE DashesToSlash(_)
DashesToSlash(s) ==
    IF s = <<>> THEN <<>>
    ELSE IF StartsWith(s, sDashes) THEN <<"/">> \o DashesToSlash(SubSeq(s, 3, Len(s)))
    ELSE <<Head(s)>> \o DashesToSlash(Tail(s))

\* snapshots_dir / story_path.replace("--", "/") / f"{name}.json"
SnapshotPath(story, name) == DashesToSlash(story) \o <<"/">> \o name \o <<".", "j", "s", "o", "n">>

Stories == { <<"b", "u", "t", "t", "o", "n", "-", "-", "p", "r", "i", "m", "a", "r", "y">> }
SnapshotNames == { <<"d", "e", "f", "a", "u", "l", "t">>, <<"w", "i", "t", "h", "_", "h", "t", "m", "l">> }
SnapshotPaths == { SnapshotPath(st, n) : st \in Stories, n \in SnapshotNames }

\* ignore_keys as passed: omitted (None), or a list.
IgnoreOmitted == [given |-> FALSE, keys |-> <<>>]
IgnoreList(keys) == [given |-> TRUE, keys |-> keys]
IgnoreChoices ==
    { IgnoreOmitted, IgnoreList(<<>>), IgnoreList(<<kTimestamp>>), IgnoreList(<<kHtml>>) }

\* The ignored keys taken as passed, an omitted argument alone giving
\* the default.
EffectiveIgnoreKeysAsPassed(ignore) ==
    IF ignore.given THEN ignore.keys ELSE <<kTimestamp>>

\* ignore_keys = ignore_keys or ["timestamp"]
EffectiveIgnoreKeys(ignore) ==
    IF ignore.given /\ ignore.keys # <<>> THEN ignore.keys ELSE <<kTimestamp>>

\* {k: v for k, v in d.items() if k not in ignore_keys}
WithoutKeys(d, keys) ==
    SelectSeq(d, LAMBDA en : \A i \in 1..Len(keys) : keys[i] # en.k)

\* current_path = f"{path}.{key}" if path else key
PathOf(path, key) == IF path = <<>> THEN key ELSE path \o <<".">> \o key

Difference(path, type, baseline, current) ==
    [path |-> path, type |-> type, baseline |-> baseline, current |-> current]

RECURSIVE FindDifferences(_, _, _)
RECURSIVE BaselineLoop(_, _, _, _)

\* What the first loop of _find_differences appends for one baseline key
\* (lines 200-216).
BaselineKey(item, current, path) ==
    IF ~DictHas(current, item.k)
    THEN <<Difference(PathOf(path, item.k), "missing", item.v, PyNone)>>
    ELSE IF item.v.t = "dict" /\ DictGet(current, item.k).t = "dict"
    THEN FindDifferences(item.v.d, DictGet(current, item.k).d, PathOf(path, item.k))
    ELSE IF item.v # DictGet(current, item.k)
    THEN <<Difference(PathOf(path, item.k), "changed", item.v, DictGet(current, item.k))>>
    ELSE <<>>

\* for key in baseline: ... from the i-th key on
BaselineLoop(baseline, current, path, i) ==
    IF i > Len(baseline) THEN <<>>
    ELSE BaselineKey(baseline[i], current, path) \o BaselineLoop(baseline, current, path, i + 1)

\* for key in current: if key not in baseline: ... (lines 219-227)
RECURSIVE AddedLoop(_, _, _, _)
AddedLoop(baseline, current, path, i) ==
    IF i > Len(current) THEN <<>>
    ELSE (IF DictHas(baseline, current[i].k) THEN <<>>
          ELSE <<Difference(PathOf(path, current[i].k), "added", PyNone, current[i].v)>>)
         \o AddedLoop(baseline, current, path, i + 1)

\* _find_differences(baseline, current, path)
FindDifferences(baseline, current, path) ==
    BaselineLoop(baseline, current, path, 1) \o AddedLoop(baseline, current, path, 1)

NoComparison ==
    [match |-> FALSE, error |-> "", keys |-> {}, differences |-> <<>>,
     baseline |-> <<>>, current |-> <<>>]

\* The dict returned when load_snapshot raised FileNotFoundError: it has
\* no "differences" key.
BaselineNotFound(current) ==
    [match |-> FALSE, error |-> "Baseline snapshot not found",
     keys |-> {"match", "error", "baseline", "current"},
     differences |-> <<>>, baseline |-> <<>>, current |-> <<current>>]

\* The dict returned after the comparison.
Compared(differences, baseline, current) ==
    [match |-> differences = <<>>, error |-> "",
     keys |-> {"match", "differences", "baseline", "current"},
     differences |-> differences, baseline |-> <<baseline>>, current |-> <<current>>]

\* compare_snapshot(story_path, name, current_snapshot, ignore_keys)
CompareSnapshot(store, story, name, current, ignore) ==
    IF store[SnapshotPath(story, name)] = <<>>
    THEN BaselineNotFound(current)
    ELSE Compared(
           FindDifferences(
             WithoutKeys(JsonLoad(store[SnapshotPath(story, name)][1]).d,
                         EffectiveIgnoreKeys(ignore)),
             WithoutKeys(current, EffectiveIgnoreKeys(ignore)), <<>>),
           WithoutKeys(JsonLoad(store[SnapshotPath(story, name)][1]).d,
                       EffectiveIgnoreKeys(ignore)),
           WithoutKeys(current, EffectiveIgnoreKeys(ignore)))

SnapNoOutcome == [kind |-> "none", data |-> <<>>, comparison |-> NoComparison]
SnapEnded(kind) == [kind |-> kind, data |-> <<>>, comparison |-> NoComparison]

NoSnapArgs ==
    [story |-> <<>>, name |-> <<>>, data |-> <<>>, update |-> FALSE, ignore |-> IgnoreOmitted]

SnapArgs(story, name, data, update, ignore) ==
    [story |-> story, name |-> name, data |-> data, update |-> update, ignore |-> ignore]

\* The file written whether or not it exists.
SaveWritesAlways(store, story, name, update) == TRUE

\* `if snapshot_path.exists() and not update: raise FileExistsError`
\* is passed: the file is written.
SaveWrites(store, story, name, update) ==
    store[SnapshotPath(story, name)] = <<>> \/ update

\* with open(snapshot_path, "w") as f: json.dump(snapshot_data, f, indent=2)
Written(store, story, name, data) ==
    [store EXCEPT ![SnapshotPath(story, name)] = <<JsonDump(PyDict(data))>>]

SnapIdle == sPc = "idle"

\* save_snapshot(story_path, name, snapshot_data, update)
SaveSnapshotCall ==
    /\ SnapIdle
    /\ \E story \in Stories, name \in SnapshotNames, data \in FewSnapshots, update \in BOOLEAN :
         /\ sArgs' = SnapArgs(story, name, data, update, IgnoreOmitted)
         /\ IF SaveWrites(sStore, story, name, update)
            THEN /\ sStore' = Written(sStore, story, name, data)
                 /\ sOutcome' = SnapEnded("return")
            ELSE /\ sStore' = sStore
                 /\ sOutcome' = SnapEnded("FileExistsError")
    /\ sFn' = "save" /\ sPc' = "done" /\ sBefore' = sStore
    /\ UNCHANGED <<verifyVars, holdVars, loadVars, matchVars, allVars, declVars, freshVars,
                   navVars, queryVars>>

\* load_snapshot(story_path, name)
LoadSnapshotCall ==
    /\ SnapIdle
    /\ \E story \in Stories, name \in SnapshotNames :
         /\ sArgs' = SnapArgs(story, name, <<>>, FALSE, IgnoreOmitted)
         /\ sOutcome' =
              IF sStore[SnapshotPath(story, name)] = <<>>
              THEN SnapEnded("FileNotFoundError")
              ELSE [kind |-> "return",
                    data |-> <<JsonLoad(sStore[SnapshotPath(story, name)][1])>>,
                    comparison |-> NoComparison]
    /\ sFn' = "load" /\ sPc' = "done" /\ sBefore' = sStore
    /\ UNCHANGED sStore
    /\ UNCHANGED <<verifyVars, holdVars, loadVars, matchVars, allVars, declVars, freshVars,
                   navVars, queryVars>>

\* A baseline file left by an earlier run or checked in with the tests
\* (one file in an otherwise empty snapshots directory).
BaselineOnDisk ==
    /\ SnapIdle
    /\ \A p \in SnapshotPaths : sStore[p] = <<>>
    /\ \E story \in Stories, name \in SnapshotNames, data \in Snapshots :
         sStore' = Written(sStore, story, name, data)
    /\ UNCHANGED <<sPc, sFn, sArgs, sBefore, sOutcome>>
    /\ UNCHANGED <<verifyVars, holdVars, loadVars, matchVars, allVars, declVars, freshVars,
                   navVars, queryVars>>

\* compare_snapshot(story_path, name, current_snapshot, ignore_keys)
CompareSnapshotCall ==
    /\ SnapIdle
    /\ \E story \in Stories, name \in SnapshotNames, current \in Snapshots,
          ignore \in IgnoreChoices :
         /\ sArgs' = SnapArgs(story, name, current, FALSE, ignore)
         /\ sOutcome' = [kind |-> "return", data |-> <<>>,
                         comparison |-> CompareSnapshot(sStore, story, name, current, ignore)]
    /\ sFn' = "compare" /\ sPc' = "done" /\ sBefore' = sStore
    /\ UNCHANGED sStore
    /\ UNCHANGED <<verifyVars, holdVars, loadVars, matchVars, allVars, declVars, freshVars,
                   navVars, queryVars>>

\* How assert_snapshot ends after compare_snapshot returned (lines 262-267):
\* comparison['differences'] is read to build the error message.
AssertEnding(comparison) ==
    IF comparison.match THEN "return"
    ELSE IF "differences" \in comparison.keys THEN "AssertionError"
    ELSE "KeyError"

\* assert_snapshot(story_path, name, ..., ignore_keys, update); `data` is
\* what capture_snapshot returned.
AssertSnapshotCall ==
    /\ SnapIdle
    /\ \E story \in Stories, name \in SnapshotNames, current \in FewSnapshots,
          ignore \in IgnoreChoices, update \in BOOLEAN :
         /\ sArgs' = SnapArgs(story, name, current, update, ignore)
         /\ IF update
            THEN /\ sStore' = Written(sStore, story, name, current)
                 /\ sOutcome' = SnapEnded("return")
            ELSE /\ sStore' = sStore
                 /\ sOutcome' =
                      [kind |-> AssertEnding(CompareSnapshot(sStore, story, name, current, ignore)),
                       data |-> <<>>,
                       comparison |-> CompareSnapshot(sStore, story, name, current, ignore)]
    /\ sFn' = "assert" /\ sPc' = "done" /\ sBefore' = sStore
    /\ UNCHANGED <<verifyVars, holdVars, loadVars, matchVars, allVars, declVars, freshVars,
                   navVars, queryVars>>

\* The call is over; the files stay.
SnapReturn ==
    /\ sPc = "done"
    /\ sPc' = "idle" /\ sFn' = "none" /\ sArgs' = NoSnapArgs
    /\ sBefore' = sStore /\ sOutcome' = SnapNoOutcome
    /\ UNCHANGED sStore
    /\ UNCHANGED <<verifyVars, holdVars, loadVars, matchVars, allVars, declVars, freshVars,
                   navVars, queryVars>>

-----------------------------------------------------------------------------
(* Specifications                                                           *)

VerifyInit ==
    /\ vPc = "idle" /\ vFn = "none"
    /\ vArgs = [selector |-> FALSE, properties |-> FALSE]
    /\ vProps = <<>> /\ vSelected = <<>> /\ vIdx = 0
    /\ vMismatches = <<>> /\ vEvaluated = <<>> /\ vLocated = FALSE
    /\ vCssVars = <<>> /\ vOutcome = NoOutcome /\ vFixtureRead = FALSE

HoldInit ==
    /\ hPc = "idle" /\ hCallback = [kind |-> "none", value |-> "None"]
    /\ hBox = "unknown" /\ hCalls = 0 /\ hMouse = <<>> /\ hMark = 0
    /\ hPointer = "up" /\ hCallbackRuns = 0 /\ hOutcome = HoldNoOutcome

LoadInit ==
    /\ lPc = "idle" /\ lFn = "none"
    /\ lFile = [exists |-> FALSE, lines |-> <<>>, fault |-> <<>>]
    /\ lPrefix = <<>> /\ lArgs = NoArgs /\ lIdx = 0 /\ lResult = <<>>
    /\ lOutcome = [kind |-> "none", logged |-> "none"] /\ lPrev = <<>>

MatchInit ==
    /\ mFn = "none" /\ mExpected = <<>> /\ mActual = <<>>
    /\ mResult = "unset" /\ mOutput = <<>>

AllInit ==
    /\ aPc = "idle" /\ aNavigated = FALSE
    /\ aRootVars = <<>> /\ aBrowser = <<>> /\ aFixture = <<>> /\ aIdx = 0 /\ aSeen = <<>>
    /\ aMismatches = <<>> /\ aMissingInBrowser = <<>> /\ aMatched = <<>>
    /\ aMissingInProperties = <<>> /\ aOutcome = AllNoOutcome

DeclInit == dPc = "idle" /\ dDocument = NoDocument /\ dResult = <<>>

FreshInit ==
    /\ fDisk = [p \in FixturePaths |-> [exists |-> TRUE, lines |-> <<>>, fault |-> <<>>]]
    /\ fOverride = <<>> /\ fPc = "idle" /\ fFn = "none"
    /\ fExpected = <<>> /\ fPrev = <<>>

NavInit ==
    /\ nPc = "idle" /\ nTimeout = 0 /\ nSelector = FALSE /\ nWaits = <<>>
    /\ nIdleWarned = FALSE /\ nOutcome = "none"

QueryInit == qPc = "idle" /\ qArgs = <<>> /\ qResult = <<>>

SnapInit ==
    /\ sPc = "idle" /\ sFn = "none" /\ sArgs = NoSnapArgs
    /\ sStore = [p \in SnapshotPaths |-> <<>>]
    /\ sBefore = [p \in SnapshotPaths |-> <<>>]
    /\ sOutcome = SnapNoOutcome

Init == VerifyInit /\ HoldInit /\ LoadInit /\ MatchInit /\ AllInit /\ DeclInit /\ FreshInit
        /\ NavInit /\ QueryInit /\ SnapInit

VerifyNext ==
    \/ VerifyPropsCall
    \/ VerifyPropsIterate
    \/ VerifyPropsFinish
    \/ VerifyCssVarsCall
    \/ VerifyCssVarsIterate
    \/ VerifyCssVarsFinish
    \/ VerifyReturn

HoldNext ==
    \/ HoldCall
    \/ HoldBoundingBox
    \/ HoldMove
    \/ HoldDown
    \/ HoldTryBody
    \/ HoldFinally

LoadNext ==
    \/ LoadWholeCall
    \/ LoadVariantCall
    \/ LoadVariantAgain
    \/ LoadPrefixCall
    \/ LoadCssFileCall
    \/ LoadReadLine
    \/ LoadException
    \/ LoadEndOfFile
    \/ LoadReturn

MatchNext ==
    \/ CssValuesMatchCall
    \/ CssValuesMatchReturn

VerifyAllNext ==
    \/ VerifyAllCall
    \/ VerifyAllIterate
    \/ VerifyAllFinish
    \/ VerifyAllReturn

DeclaredStyleNext ==
    \/ GetDeclaredStyleCall
    \/ GetDeclaredStyleReturn

DeclaredNext ==
    \/ DeclaredMatchesCall
    \/ DeclaredMatchesReturn

ColorNext ==
    \/ NormColorCall
    \/ NormColorReturn

FreshNext ==
    \/ FixtureFileWrite
    \/ SetCssPropertiesFile
    \/ FreshVerifyCall
    \/ FreshVerifyReturn

NavigateNext ==
    \/ NavigateCall
    \/ NavGoto
    \/ NavNetworkIdle
    \/ NavWaitBody
    \/ NavWaitIframe
    \/ NavWaitSelector
    \/ NavReturn

QueryNext ==
    \/ BuildArgsQueryCall
    \/ BuildArgsQueryReturn

SnapshotNext ==
    \/ SaveSnapshotCall
    \/ LoadSnapshotCall
    \/ AssertSnapshotCall
    \/ SnapReturn

CompareNext ==
    \/ BaselineOnDisk
    \/ CompareSnapshotCall
    \/ SnapReturn

\* One test process drives one PropertyChecker; each specification
\* exercises one part of it.
SpecVerify == Init /\ [][VerifyNext]_vars
SpecHold   == Init /\ [][HoldNext]_vars
SpecLoad   == Init /\ [][LoadNext]_vars
SpecMatch  == Init /\ [][MatchNext]_vars
SpecVerifyAll == Init /\ [][VerifyAllNext]_vars
SpecDeclaredStyle == Init /\ [][DeclaredStyleNext]_vars
SpecDeclared == Init /\ [][DeclaredNext]_vars
SpecColor  == Init /\ [][ColorNext]_vars
SpecFresh  == Init /\ [][FreshNext]_vars
SpecNavigate == Init /\ [][NavigateNext]_vars
SpecQuery  == Init /\ [][QueryNext]_vars
SpecSnapshot == Init /\ [][SnapshotNext]_vars
SpecCompare == Init /\ [][CompareNext]_vars

Next == VerifyNext \/ HoldNext \/ LoadNext \/ MatchNext \/ VerifyAllNext \/ DeclaredStyleNext
        \/ DeclaredNext \/ ColorNext \/ FreshNext \/ NavigateNext \/ QueryNext
        \/ SnapshotNext \/ CompareNext

Spec == Init /\ [][Next]_vars

-----------------------------------------------------------------------------
(* Properties                                                               *)

\* An expected value that is a CSS-variable reference: a string starting
\* with "var(--".
VarReference(entry) ==
    ~entry.tuple /\ Len(entry.value) >= 6 /\ SubSeq(entry.value, 1, 6) = sVarOpen

EntryNamed(props, n) == props[CHOOSE i \in 1..Len(props) : props[i].name = n]

NamesOf(entries) == [i \in 1..Len(entries) |-> entries[i].name]

VerifyPropsEnded == vPc = "done" /\ vFn = "props" /\ vArgs.selector /\ vArgs.properties

\* Evaluations of this call whose actual value does not match the expectation.
MismatchingEvaluations ==
    { i \in 1..Len(vEvaluated) :
        PropertyMismatch(EntryNamed(vProps, vEvaluated[i].name), vEvaluated[i].actual) }

\* C1: verify_component_properties never short-circuits.  When a call with a
\* selector and an expected mapping has ended, every non-variable entry was
\* evaluated, in order, whatever values the browser reported; if at least one
\* mismatched, the call ended in one AssertionError whose count is the number
\* of mismatching properties and whose lines name exactly the mismatching
\* properties (no matching one); if none mismatched, it returned normally.
C1_NeverShortCircuits ==
    VerifyPropsEnded =>
        /\ NamesOf(vEvaluated) = NamesOf(SelectSeq(vProps, LAMBDA en : ~VarReference(en)))
        /\ IF MismatchingEvaluations = {}
           THEN vOutcome = Returned
           ELSE /\ vOutcome.kind = "AssertionError"
                /\ vOutcome.count = Cardinality(MismatchingEvaluations)
                /\ Len(vOutcome.lines) = vOutcome.count
                /\ { vOutcome.lines[j].name : j \in 1..Len(vOutcome.lines) }
                     = { vEvaluated[i].name : i \in MismatchingEvaluations }

\* Three properties scanned, the first one already mismatching, two
\* mismatches reported and one property passing.
C1_Witness ==
    /\ VerifyPropsEnded
    /\ Len(vEvaluated) = 3
    /\ 1 \in MismatchingEvaluations
    /\ vOutcome.kind = "AssertionError" /\ vOutcome.count = 2

HoldOpsOfCall == { i \in 1..Len(hMouse) : i > hMark }

\* C2: in hold_click_state, once mouse.down was issued, mouse.up is issued
\* on every exit path (callback returns, callback raises, the fixed hold
\* elapses): no call ends with the pointer down.
C2_ReleasedOnEveryExit ==
    hPc = "done" =>
        /\ hPointer = "up"
        /\ \A i \in HoldOpsOfCall :
             hMouse[i] = "down" => \E j \in HoldOpsOfCall : j > i /\ hMouse[j] = "up"

\* A call whose callback raised, ended with the pointer released.
C2_Witness ==
    /\ hPc = "done" /\ hOutcome.kind = "CallbackError"
    /\ hCallbackRuns = 1
    /\ hMouse # <<>> /\ hMouse[Len(hMouse)] = "up"

\* C3: when the element has no bounding box, hold_click_state raises
\* before any pointer operation: the call has ended in ValueError, issued
\* no mouse.move, mouse.down or mouse.up, did not run the callback, and the
\* pointer is not left pressed.
C3_NoBoxNoPointerOperation ==
    hBox = "none" =>
        /\ hPc = "done" /\ hOutcome.kind = "ValueError"
        /\ HoldOpsOfCall = {}
        /\ hCallbackRuns = 0
        /\ hPointer = "up"

\* A call with a callback that found no bounding box.
C3_Witness ==
    hBox = "none" /\ hCallback.kind = "returns" /\ hPc = "done"

-----------------------------------------------------------------------------
(* What a fixture text means, line by line.                                 *)

IsKeyValueLine(rawLine) ==
    /\ Strip(rawLine) # <<>>
    /\ Head(Strip(rawLine)) # "#"
    /\ Contains(Strip(rawLine), "=")

TrimmedKey(rawLine) ==
    Strip(SubSeq(Strip(rawLine), 1, FirstIndex(Strip(rawLine), "=") - 1))

TrimmedValue(rawLine) ==
    Strip(SubSeq(Strip(rawLine), FirstIndex(Strip(rawLine), "=") + 1, Len(Strip(rawLine))))

\* Indexes of the key=value lines that no later key=value line overrides.
WinningLines(lines) ==
    { i \in 1..Len(lines) :
        /\ IsKeyValueLine(lines[i])
        /\ \A j \in (i + 1)..Len(lines) :
             IsKeyValueLine(lines[j]) => TrimmedKey(lines[j]) # TrimmedKey(lines[i]) }

\* The trimmed (key, value) pairs of the text, last duplicate winning.
LastWinsPairs(lines) ==
    { <<TrimmedKey(lines[i]), TrimmedValue(lines[i])>> : i \in WinningLines(lines) }

DictPairs(d) == { <<d[i].k, d[i].v>> : i \in 1..Len(d) }

DistinctKeys(d) == \A i, j \in 1..Len(d) : d[i].k = d[j].k => i = j

InCssVarNamespace(key) == Len(key) >= 8 /\ SubSeq(key, 1, 8) = sCssVarNs

\* The loader read the existing file to its end.
LoadCompleted == lPc = "done" /\ lFile.exists /\ lFile.fault = <<>>

BaseParseCall == lFn = "whole" \/ (lFn = "prefix" /\ lPrefix = <<>>)

C5_MissingFileEmptyMapping ==
    (lPc = "done" /\ ~lFile.exists) => (lOutcome.kind = "return" /\ lResult = <<>>)

\* The variant loader returned for a missing file.
C5_Witness ==
    lPc = "done" /\ ~lFile.exists /\ lFn = "variant" /\ lOutcome.logged = "warning"

\* C6: when an I/O or parse exception occurs at any point while reading a
\* fixture file, the loader returns the empty mapping, not a partially
\* filled one, and does not raise.
C6_ExceptionGivesEmptyMapping ==
    (lPc = "done" /\ lOutcome.logged = "error") =>
        (lOutcome.kind = "return" /\ lResult = <<>>)

\* prefix "variant.state.size." with the three segments lower-cased
LoweredSegments(args) ==
    Lower(args[1]) \o <<".">> \o Lower(args[2]) \o <<".">> \o Lower(args[3]) \o <<".">>

HasPrefix(key, pre) == Len(key) >= Len(pre) /\ SubSeq(key, 1, Len(pre)) = pre

\* C7: the variant filter called with (variant, state, size) returns exactly
\* the fixture entries whose key starts with
\* lower(variant).lower(state).lower(size)., the prefix stripped from the
\* key, and no other entry; a call whose segments differ from the previous
\* call's only in letter case returns the same mapping.
C7_VariantFilter ==
    (LoadCompleted /\ lFn = "variant") =>
        /\ DictPairs(lResult) =
             { <<SubSeq(pr[1], Len(LoweredSegments(lArgs)) + 1, Len(pr[1])), pr[2]>> :
                 pr \in { q \in LastWinsPairs(lFile.lines) :
                            HasPrefix(q[1], LoweredSegments(lArgs)) } }
        /\ DistinctKeys(lResult)
        /\ lPrev # <<>> => lResult = lPrev[1].result

\* A second call with other letter case that returned a non-empty mapping.
C7_Witness ==
    /\ LoadCompleted /\ lFn = "variant"
    /\ lPrev # <<>> /\ lPrev[1].args # lArgs
    /\ lResult # <<>>

\* C8: load_component_properties returns every key=value entry of the file
\* except those whose key starts with "css-var.", and never holds a key
\* starting with "css-var.".
C8_WholeFileExcludesCssVar ==
    lFn = "whole" =>
        /\ \A i \in 1..Len(lResult) : ~InCssVarNamespace(lResult[i].k)
        /\ LoadCompleted =>
             /\ \A pr \in LastWinsPairs(lFile.lines) :
                  ~InCssVarNamespace(pr[1]) => pr \in DictPairs(lResult)
             /\ DictPairs(lResult) \subseteq LastWinsPairs(lFile.lines)

\* A file mixing a css-var. key with a regular key, read to its end.
C8_Witness ==
    /\ LoadCompleted /\ lFn = "whole"
    /\ lResult # <<>>
    /\ \E pr \in LastWinsPairs(lFile.lines) : InCssVarNamespace(pr[1])

\* C9: the entries checked by verify_component_properties and those
\* checked by verify_component_css_variables are disjoint: whatever either
\* verifier evaluates in the browser, verify_component_properties evaluates
\* no entry whose value is a var(--...) reference, and
\* verify_component_css_variables evaluates only such entries.
C9_DisjointPaths ==
    \A i \in 1..Len(vEvaluated) :
        /\ vFn = "props" => ~VarReference(EntryNamed(vProps, vEvaluated[i].name))
        /\ vFn = "cssvars" => VarReference(EntryNamed(vProps, vEvaluated[i].name))

\* The regular verifier has finished a mapping that mixes a var(--...)
\* entry with regular entries: it evaluated the regular ones only.
C9_Witness ==
    /\ vPc = "done" /\ vFn = "props"
    /\ \E i \in 1..Len(vProps) : VarReference(vProps[i])
    /\ Len(vEvaluated) = 2 /\ Len(vProps) = 3

-----------------------------------------------------------------------------
(* Numeric-with-unit values                                                 *)

EndsWith(s, suffix) ==
    Len(s) >= Len(suffix) /\ SubSeq(s, Len(s) - Len(suffix) + 1, Len(s)) = suffix

\* The text left after taking the px and % suffixes (and padding) away.
RECURSIVE StripUnits(_)
StripUnits(s) ==
    IF Strip(s) # s THEN StripUnits(Strip(s))
    ELSE IF EndsWith(s, sPx) THEN StripUnits(SubSeq(s, 1, Len(s) - 2))
    ELSE IF EndsWith(s, sPercent) THEN StripUnits(SubSeq(s, 1, Len(s) - 1))
    ELSE s

\* The number a value reduces to; an empty residual is 0.
ReducedNumber(s) ==
    ParseFloat(IF StripUnits(Lower(s)) = <<>> THEN <<"0">> ELSE StripUnits(Lower(s)))

SameNumber(a, b) ==
    /\ ReducedNumber(a).ok /\ ReducedNumber(b).ok
    /\ ReducedNumber(a).m * Pow10(ReducedNumber(b).f)
         = ReducedNumber(b).m * Pow10(ReducedNumber(a).f)

ZeroForms == {<<"0">>, <<"0", "p", "x">>, <<>>}

\* C10: for all pairs of values that reduce to the same number after
\* stripping px and % (an empty residual is 0), _css_values_match reports
\* them equal; in particular 0, 0px and the empty string are pairwise equal.
C10_SameNumberMatches ==
    mResult # "unset" =>
        /\ SameNumber(mExpected, mActual) => mResult = "True"
        /\ (mExpected \in ZeroForms /\ mActual \in ZeroForms) => mResult = "True"

\* "0px" against the empty string.
C10_Witness ==
    mExpected = <<"0", "p", "x">> /\ mActual = <<>> /\ mResult = "True"


-----------------------------------------------------------------------------
(* Special-case equivalences of the value comparison                        *)

\* C11: rgb(0, 0, 0) and rgba(0, 0, 0, 0) compare equal in both directions
\* under _css_values_match, the comparison verify_component_properties uses.
C11_TransparentBlackAlias ==
    (mFn = "_css_values_match" /\ {mExpected, mActual} = {sRgbBlack, sRgbaClear}) =>
        mResult = "True"

\* The variable name a var(...) reference names: the text between "var("
\* and the first comma or the closing parenthesis, trimmed.
ReferencedName(s) ==
    LET body == SubSeq(Strip(s), 5, Len(Strip(s)) - 1)
    IN  IF Contains(body, ",") THEN Strip(SplitOnce(body, ",")[1]) ELSE Strip(body)

IsVarReference(s) ==
    /\ StartsWith(Strip(s), sVarOpen)
    /\ Strip(s)[Len(Strip(s))] = ")"

\* C12: two CSS-variable references compare equal whenever they name the
\* same variable, whether or not the expected or the actual side carries a
\* fallback after a comma, and compare unequal when the names differ.
C12_SameVariableMatches ==
    (mFn = "declared_matches" /\ IsVarReference(mExpected) /\ IsVarReference(mActual)) =>
        (mResult = "True" <=> ReferencedName(mExpected) = ReferencedName(mActual))


-----------------------------------------------------------------------------
(* The color canonicalizer                                                  *)

sHexAlphabet == <<"0", "1", "2", "3", "4", "5", "6", "7", "8", "9", "a", "b", "c", "d", "e", "f">>

HexDigitValue(c) == CHOOSE n \in 0..15 : sHexAlphabet[n + 1] = LowerChar(c)

IsHexText(s, n) ==
    /\ Len(s) = n + 1 /\ s[1] = "#"
    /\ \A i \in 2..(n + 1) : \E k \in 1..16 : sHexAlphabet[k] = LowerChar(s[i])

\* The RGB triple a three- or six-digit hex color denotes.
HexTriple(s) ==
    IF Len(s) = 4
    THEN <<17 * HexDigitValue(s[2]), 17 * HexDigitValue(s[3]), 17 * HexDigitValue(s[4])>>
    ELSE <<16 * HexDigitValue(s[2]) + HexDigitValue(s[3]),
           16 * HexDigitValue(s[4]) + HexDigitValue(s[5]),
           16 * HexDigitValue(s[6]) + HexDigitValue(s[7])>>

DecimalDigit(n) == sHexAlphabet[n + 1]

\* n in 0..255 in decimal
DecimalText(n) ==
    IF n >= 100
    THEN <<DecimalDigit(n \div 100), DecimalDigit((n \div 10) % 10), DecimalDigit(n % 10)>>
    ELSE IF n >= 10 THEN <<DecimalDigit(n \div 10), DecimalDigit(n % 10)>>
    ELSE <<DecimalDigit(n)>>

\* "rgb(r, g, b)" for a triple
CanonicalRgb(t) ==
    <<"r", "g", "b", "(">> \o DecimalText(t[1]) \o <<",", " ">> \o DecimalText(t[2]) \o <<",", " ">>
             \o DecimalText(t[3]) \o <<")">>

NormColorCalled == mFn = "_norm_color"

\* The canonical form of rgb()/rgba() forms: every form of the given set
\* gives "rgb(r, g, b)" with its own three channels and nothing else.
RgbFormsCanonical(forms) ==
    \A f \in forms :
        Strip(mExpected) = Strip(f.text) =>
            /\ mOutput[1].ok
            /\ mOutput[1].v = Str(<<"r", "g", "b", "(">> \o f.r \o <<",", " ">> \o f.g \o <<",", " ">> \o f.b \o <<")">>)

\* A 3-digit and a 6-digit hex color of the same RGB triple give the
\* identical "rgb(r, g, b)" text.
HexPairsCanonical ==
    (/\ IsHexText(Strip(mExpected), 3) /\ IsHexText(Strip(mActual), 6)
     /\ HexTriple(Strip(mExpected)) = HexTriple(Strip(mActual))) =>
        /\ mOutput[1].ok /\ mOutput[2].ok
        /\ mOutput[1].v = mOutput[2].v
        /\ mOutput[1].v = Str(CanonicalRgb(HexTriple(Strip(mExpected))))

-----------------------------------------------------------------------------
(* CSS-variable verification                                                *)

VerifyCssVarsEnded == vPc = "done" /\ vFn = "cssvars" /\ vArgs.selector /\ vArgs.properties

\* The custom property a var(--name) reference names: "--name".
ReferencedVariable(expected) == SubSeq(expected, 5, Len(expected) - 1)

\* The CSS Variable Fixture holds no (non-empty) value for the variable.
NoFixtureValue(cssVars, name) ==
    \A i \in 1..Len(cssVars) : cssVars[i].k = name => cssVars[i].v = <<>>

LinesOf(lines, name) == SelectSeq(lines, LAMBDA ln : ln.name = name)

\* C14: when verify_component_css_variables has ended, every expected entry
\* whose referenced variable has no value in the CSS Variable Fixture has
\* produced exactly one mismatch, of kind "no predefined value", and the
\* call ended in one aggregated failure listing it with the mismatches of
\* the other entries.
C14_NoPredefinedValueReported ==
    VerifyCssVarsEnded =>
        \A i \in 1..Len(vSelected) :
            NoFixtureValue(vCssVars, ReferencedVariable(vSelected[i].value)) =>
                /\ vOutcome.kind = "AssertionError"
                /\ vOutcome.lines = vMismatches
                /\ Len(LinesOf(vOutcome.lines, vSelected[i].name)) = 1
                /\ LinesOf(vOutcome.lines, vSelected[i].name)[1].kind = "no predefined value"


-----------------------------------------------------------------------------
(* verify_all_css_variables                                                 *)

VerifyAllEnded == aPc = "done"

\* Custom properties the browser exposes and the fixture does not declare.
ExtraBrowserVars == SelectSeq(aRootVars, LAMBDA en : \A i \in 1..Len(aFixture) : aFixture[i].k # en.k)

MismatchedNames == { aMismatches[i].variable : i \in 1..Len(aMismatches) }

\* Every fixture variable was found in the browser with a matching value.
EveryFixtureVariableMatched == DictKeys(aMatched) = DictKeys(aFixture)

C16_ThreeDisjointOutcomes ==
    VerifyAllEnded =>
        /\ \A i \in 1..Len(aFixture) :
             Cardinality({ c \in {"matched", "value_mismatch", "missing_in_browser"} :
                             \/ c = "matched" /\ aFixture[i].k \in DictKeys(aMatched)
                             \/ c = "value_mismatch" /\ aFixture[i].k \in MismatchedNames
                             \/ c = "missing_in_browser"
                                  /\ aFixture[i].k \in DictKeys(aMissingInBrowser) }) = 1
        /\ (aMismatches # <<>> \/ aMissingInBrowser # <<>>) => aOutcome.kind = "AssertionError"


-----------------------------------------------------------------------------
(* Degenerate calls of the two verifiers                                    *)

\* The entries of the expected mapping that belong to the running verifier:
\* the regular ones for verify_component_properties, the var(--...) ones for
\* verify_component_css_variables.
OwnCategory ==
    SelectSeq(vProps, LAMBDA en : IF vFn = "props" THEN ~VarReference(en) ELSE VarReference(en))

VerifierEnded == vPc = "done" /\ vFn \in {"props", "cssvars"}

\* C17: an expected mapping that is empty, or empty after the category
\* filter, makes verify_component_properties and
\* verify_component_css_variables a silent no-op: called with a selector and
\* such a mapping, they return without raising, evaluate nothing in the
\* browser and read no fixture.
C17_EmptyMappingNoOp ==
    (VerifierEnded /\ vArgs.selector /\ vArgs.properties /\ OwnCategory = <<>>) =>
        /\ vOutcome = Returned
        /\ vEvaluated = <<>>
        /\ ~vFixtureRead

\* verify_component_css_variables returned on a mapping of two regular
\* entries, none of them a var(--...) reference.
C17_Witness ==
    /\ VerifierEnded /\ vFn = "cssvars" /\ vArgs.selector /\ vArgs.properties
    /\ Len(vProps) = 2 /\ OwnCategory = <<>>
    /\ vOutcome = Returned /\ vEvaluated = <<>>

\* C18: a call of verify_component_properties or
\* verify_component_css_variables without a selector has failed at once with
\* a ValueError and before any side effect: no locator was obtained, nothing
\* was evaluated in the browser and no fixture was read, whatever mapping
\* was passed.
C18_NoSelectorNoSideEffect ==
    (vFn \in {"props", "cssvars"} /\ ~vArgs.selector) =>
        /\ vPc = "done" /\ vOutcome = Raised("ValueError")
        /\ ~vLocated
        /\ vEvaluated = <<>>
        /\ ~vFixtureRead
        /\ vMismatches = <<>>

\* verify_component_css_variables called without a selector and with a
\* mapping holding a var(--...) entry.
C18_Witness ==
    /\ vFn = "cssvars" /\ ~vArgs.selector /\ vArgs.properties
    /\ \E i \in 1..Len(vProps) : VarReference(vProps[i])
    /\ vOutcome = Raised("ValueError")


-----------------------------------------------------------------------------
(* Empty actual values                                                      *)

MismatchedProperties == { vOutcome.lines[j].name : j \in 1..Len(vOutcome.lines) }

\* Evaluations of this call for which the browser reported the empty string.
EmptyActuals == { i \in 1..Len(vEvaluated) : vEvaluated[i].actual = <<>> }

\* An expected value that is blank or a number equal to zero once px and %
\* are taken away.
ZeroLike(value) ==
    \/ Strip(value) = <<>>
    \/ ReducedNumber(value).ok /\ ReducedNumber(value).m = 0

\* C19 as stated: against an empty actual value, a mismatch is recorded for
\* every entry whose expected value is non-empty and none for an entry whose
\* expected value is empty.
C19_Original ==
    VerifyPropsEnded =>
        \A i \in EmptyActuals :
            vEvaluated[i].name \in MismatchedProperties
                <=> EntryNamed(vProps, vEvaluated[i].name).value # <<>>

\* C19, amended: against an empty actual value, verify_component_properties
\* records a mismatch for every entry whose expected value is neither blank
\* nor a number equal to zero after removing px and % (with or without a
\* tolerance), and records none for an entry whose expected value is empty,
\* blank or such a zero.
C19_EmptyActual ==
    VerifyPropsEnded =>
        \A i \in EmptyActuals :
            vEvaluated[i].name \in MismatchedProperties
                <=> ~ZeroLike(EntryNamed(vProps, vEvaluated[i].name).value)

\* Three properties, all reported empty by the browser: expected "" and
\* expected "0" pass, expected (10px, 1) is the one mismatch.
C19_Witness ==
    /\ VerifyPropsEnded
    /\ Len(vEvaluated) = 3 /\ EmptyActuals = {1, 2, 3}
    /\ vProps[1].value = <<>> /\ vProps[2].value = <<"0">>
    /\ vProps[3].tuple /\ vProps[3].tol # <<>>
    /\ vOutcome.kind = "AssertionError" /\ vOutcome.count = 1
    /\ MismatchedProperties = {vProps[3].name}


-----------------------------------------------------------------------------
(* The declared value of a property                                         *)

\* The style rules of a rule list in document order, the rules nested in
\* rule groups in the place of their group.
RECURSIVE RulesInOrder(_)
RulesInOrder(rules) ==
    IF rules = <<>> THEN <<>>
    ELSE (IF Head(rules).kind = "group" THEN RulesInOrder(Head(rules).rules)
          ELSE IF Head(rules).kind = "style" THEN <<Head(rules)>>
          ELSE <<>>)
         \o RulesInOrder(Tail(rules))

\* The style rules of the readable sheets of the document, in document order.
RECURSIVE DocumentRules(_)
DocumentRules(sheets) ==
    IF sheets = <<>> THEN <<>>
    ELSE (IF Head(sheets).readable THEN RulesInOrder(Head(sheets).rules) ELSE <<>>)
         \o DocumentRules(Tail(sheets))

\* Positions of the rules that match the element and set the property.
SettingRules(flat) ==
    { i \in 1..Len(flat) : flat[i].matches = "yes" /\ flat[i].value # <<>> }

LastOf(S) == CHOOSE i \in S : \A j \in S : j <= i

\* C20: get_declared_style returns the value set by the last rule in
\* document order (rules nested in rule groups included) that matches the
\* element and sets the property, unless the element's inline style sets the
\* property, in which case the inline value is returned; it returns the
\* empty string when nothing sets it or the element is absent.
C20_LastMatchingRuleWins ==
    dPc = "done" =>
        dResult =
            IF ~dDocument.element THEN <<>>
            ELSE IF dDocument.inline # <<>> THEN dDocument.inline
            ELSE IF SettingRules(DocumentRules(dDocument.sheets)) = {} THEN <<>>
            ELSE DocumentRules(dDocument.sheets)[
                    LastOf(SettingRules(DocumentRules(dDocument.sheets)))].value

\* Two matching rules set the property, the second one nested two rule
\* groups deep, a later sheet cannot be read and there is no inline value:
\* the nested rule's value is returned.
C20_Witness ==
    /\ dPc = "done" /\ dDocument.element /\ dDocument.inline = <<>>
    /\ Len(dDocument.sheets) = 2 /\ ~dDocument.sheets[2].readable
    /\ Len(dDocument.sheets[1].rules) = 2
    /\ dDocument.sheets[1].rules[1] = StyleRule("yes", sRed)
    /\ dDocument.sheets[1].rules[2].kind = "group"
    /\ dResult = sDeep


-----------------------------------------------------------------------------
(* C21: both syntaxes of the CSS variable file.                             *)

\* `--name=value`: the name, up to the first "=", holds no ":".
FlatVariableLine(line) ==
    /\ StartsWith(line, sDashes)
    /\ Contains(line, "=")
    /\ ~Contains(SplitOnce(line, "=")[1], ":")

\* `--name: value;`: the name, up to the first ":", holds no "=".
ColonVariableLine(line) ==
    /\ StartsWith(line, sDashes)
    /\ Contains(line, ":")
    /\ ~Contains(SplitOnce(line, ":")[1], "=")

\* The line load_css_variables_from_file has just read, stripped.
LineJustRead == Strip(lFile.lines[lIdx])

\* C21: after load_css_variables_from_file has read a variable line, the
\* mapping holds the line's name with the line's value: for a flat line
\* `--name=value` the text after the first "=", whatever it contains, and
\* for a colon-style line the text after the first ":" without its
\* trailing semicolon.
C21_BothSyntaxesMapped ==
    (lFn = "cssfile" /\ lPc = "read" /\ lIdx > 0) =>
        /\ FlatVariableLine(LineJustRead) =>
             LET kv == SplitOnce(LineJustRead, "=")
             IN  /\ DictHas(lResult, Strip(kv[1]))
                 /\ DictGet(lResult, Strip(kv[1])) = Strip(kv[2])
        /\ ColonVariableLine(LineJustRead) =>
             LET parts == SplitOnce(LineJustRead, ":")
             IN  /\ DictHas(lResult, Strip(parts[1]))
                 /\ DictGet(lResult, Strip(parts[1]))
                       = Strip(RStripSemicolon(Strip(parts[2])))

-----------------------------------------------------------------------------
(* C22: fixture data is read anew by every verification call.               *)

\* The file the running verification call reads.
FileRead == fDisk[CssVariablesPath(fOverride)]

\* What the lines of a file declare: each declared name with the value of
\* its last declaration.
DeclaredInFile(file) ==
    IF ~file.exists THEN <<>> ELSE CssFileLines(<<>>, file.lines)

\* C22: in every verification call the expected values are those of the
\* fixture file as it is at the time of that call; in particular a call
\* that follows a call on the same path whose content has changed since
\* works with the new content, not with what the earlier call was given.
C22_LoadedFresh ==
    fPc = "verifying" => fExpected = DeclaredInFile(FileRead)

\* A second call on the same path after the file changed, whose expected
\* values differ from those of the first call.
C22_Witness ==
    /\ fPc = "verifying" /\ fPrev # <<>>
    /\ fPrev[1].path = CssVariablesPath(fOverride)
    /\ fPrev[1].file # FileRead
    /\ fPrev[1].expected # fExpected
    /\ fPrev[1].expected # <<>> /\ fExpected # <<>>

-----------------------------------------------------------------------------
(* C23: every wait of navigate_to_story is bounded.                         *)

\* C23: every wait navigate_to_story has issued (page load, network idle,
\* body, iframe, story selector) carries a timeout that is strictly
\* positive, whatever STORYBOOK_TIMEOUT is configured; a timeout of 0
\* means "no timeout" to the browser driver.
C23_EveryWaitBounded ==
    \A i \in 1..Len(nWaits) : nWaits[i].timeout > 0

-----------------------------------------------------------------------------
(* C27: the args query.                                                     *)

\* The text the claim gives a value: !true, !false, or the string with
\* every space turned into "+"; the claim is silent on other values.
ClaimedValueText(value) ==
    CASE value.kind = "bool" -> IF value.b THEN <<"!", "t", "r", "u", "e">>
                                ELSE <<"!", "f", "a", "l", "s", "e">>
      [] value.kind = "str"  -> [i \in 1..Len(value.s) |->
                                   IF value.s[i] = " " THEN "+" ELSE value.s[i]]
      [] OTHER -> ArgValueText(value)

\* The text from position `from` of the result on is the pairs i..Len(args)
\* joined by ";".
RECURSIVE PairsFrom(_, _, _)
PairsFrom(text, args, i) ==
    LET pair == args[i].k \o <<":">> \o ClaimedValueText(args[i].v)
    IN  /\ HasPrefix(text, pair)
        /\ IF i = Len(args) THEN Len(text) = Len(pair)
           ELSE /\ Len(text) > Len(pair)
                /\ text[Len(pair) + 1] = ";"
                /\ PairsFrom(SubSeq(text, Len(pair) + 2, Len(text)), args, i + 1)

\* C27: the returned query is the empty string for the empty map, and
\* otherwise the key:value pairs of the map in the map's order joined by
\* ";", with True as !true, False as !false and every space of a string
\* value as "+".
C27_ArgsQueryEncoding ==
    qPc = "done" =>
        IF qArgs = <<>> THEN qResult = <<>> ELSE PairsFrom(qResult, qArgs, 1)

\* A map of two entries, a boolean and a string with a space.
C27_Witness ==
    /\ qPc = "done" /\ Len(qArgs) = 2
    /\ qArgs[1].v.kind = "bool"
    /\ qArgs[2].v.kind = "str" /\ Contains(qArgs[2].v.s, " ")
    /\ Contains(qResult, ";") /\ Contains(qResult, "+") /\ ~Contains(qResult, " ")

-----------------------------------------------------------------------------
(* C24: comparison with a tolerance.                                        *)

\* The number a value is once px and % are taken away; ok = FALSE when
\* what is left is not a number.
ToleranceNumber(v) == ParseFloat(StripUnits(v))

\* Evaluations of this call whose expected entry carries a tolerance.
TolerancedEvaluations ==
    { i \in 1..Len(vEvaluated) :
        /\ EntryNamed(vProps, vEvaluated[i].name).tuple
        /\ EntryNamed(vProps, vEvaluated[i].name).tol # <<>> }

\* |actual - expected| > tolerance, on the exact decimal values.
BeyondTolerance(expected, actual, tol) ==
    LET e == ToleranceNumber(expected)
        a == ToleranceNumber(actual)
        d == a.m * Pow10(e.f) - e.m * Pow10(a.f)
    IN  (IF d < 0 THEN -d ELSE d) > tol * Pow10(a.f + e.f)

-----------------------------------------------------------------------------
(* C25: verify_component_properties without an expected mapping.            *)

\* C25: verify_component_properties called with a selector and no expected
\* mapping verifies the values of the component's fixture file; it ends by
\* returning or in the aggregated property-mismatch AssertionError, never
\* in another failure.
C25_FixtureMappingVerified ==
    (vPc = "done" /\ vFn = "props" /\ vArgs.selector /\ ~vArgs.properties) =>
        vOutcome.kind \in {"return", "AssertionError"}

-----------------------------------------------------------------------------
(* Snapshots: C26, C28, C29                                                 *)

\* The file the running snapshot call is about.
CallPath == SnapshotPath(sArgs.story, sArgs.name)

SnapCallEnded(fn) == sPc = "done" /\ sFn = fn

\* C26: an assert_snapshot call (update not set) for a (story, name) with
\* no saved baseline creates the baseline from the current snapshot and
\* passes; a call for a (story, name) with a baseline compares the current
\* snapshot against it, passing when they match and failing with an
\* AssertionError when they differ, the baseline left as it was.
C26_FirstRunCreatesBaseline ==
    (SnapCallEnded("assert") /\ ~sArgs.update) =>
        IF sBefore[CallPath] = <<>>
        THEN /\ sOutcome.kind = "return"
             /\ sStore[CallPath] = <<JsonDump(PyDict(sArgs.data))>>
        ELSE /\ sOutcome.kind \in {"return", "AssertionError"}
             /\ sOutcome.kind = "return" <=> sOutcome.comparison.match
             /\ sStore = sBefore

KeySet(d) == { d[i].k : i \in 1..Len(d) }

\* Deep equality of two dicts, whatever the order of their keys.
RECURSIVE DeepEqual(_, _)
DeepEqual(x, y) ==
    /\ KeySet(x) = KeySet(y)
    /\ \A k \in KeySet(x) :
         IF DictGet(x, k).t = "dict" /\ DictGet(y, k).t = "dict"
         THEN DeepEqual(DictGet(x, k).d, DictGet(y, k).d)
         ELSE DictGet(x, k) = DictGet(y, k)

\* The differing paths of two dicts, each with its tag.
RECURSIVE DifferingPaths(_, _, _)
DifferingPaths(b, c, path) ==
    { <<PathOf(path, k), "missing">> : k \in KeySet(b) \ KeySet(c) } \cup
    { <<PathOf(path, k), "added">> : k \in KeySet(c) \ KeySet(b) } \cup
    UNION { IF DictGet(b, k).t = "dict" /\ DictGet(c, k).t = "dict"
            THEN DifferingPaths(DictGet(b, k).d, DictGet(c, k).d, PathOf(path, k))
            ELSE IF DictGet(b, k) # DictGet(c, k)
            THEN { <<PathOf(path, k), "changed">> }
            ELSE {} : k \in KeySet(b) \cap KeySet(c) }

\* The keys the caller asked to ignore: those passed, or timestamp when
\* the argument was omitted.
RequestedIgnoreKeys ==
    IF sArgs.ignore.given THEN sArgs.ignore.keys ELSE <<kTimestamp>>

StoredBaseline == JsonLoad(sBefore[CallPath][1]).d

\* C29: compare_snapshot against an existing baseline reports match=True
\* exactly when the baseline and the current snapshot are deeply equal
\* after removing the keys the caller passed as ignore_keys (timestamp
\* when the argument is omitted), and lists exactly one difference per
\* differing path, tagged missing, changed or added.
C29_ComparesWithoutIgnoredKeys ==
    (SnapCallEnded("compare") /\ sBefore[CallPath] # <<>>) =>
        LET b == WithoutKeys(StoredBaseline, RequestedIgnoreKeys)
            c == WithoutKeys(sArgs.data, RequestedIgnoreKeys)
            differences == sOutcome.comparison.differences
        IN  /\ sOutcome.comparison.match <=> DeepEqual(b, c)
            /\ { <<differences[i].path, differences[i].type>> : i \in 1..Len(differences) }
                 = DifferingPaths(b, c, <<>>)
            /\ \A i, j \in 1..Len(differences) :
                 differences[i].path = differences[j].path => i = j

-----------------------------------------------------------------------------
(* C30: one press, one release, the callback in between.                    *)

\* What the running (or last) hold_click_state call did, in order.
OpsOfCall == SubSeq(hMouse, hMark + 1, Len(hMouse))

Positions(ops, op) == { i \in 1..Len(ops) : ops[i] = op }

\* C30: a hold_click_state call that has ended after reaching the press
\* issued exactly one mouse.down and exactly one mouse.up, the down first;
\* it ran the callback at most once, after the down and before the up, and
\* not at all when none was given; when the callback returned, the call
\* returned its value, and None when no callback was given.  Over all
\* calls so far, mouse.up was never issued more often than mouse.down.
C30_OnePressOneRelease ==
    /\ (hPc = "done" /\ Positions(OpsOfCall, "down") # {}) =>
         /\ Cardinality(Positions(OpsOfCall, "down")) = 1
         /\ Cardinality(Positions(OpsOfCall, "up")) = 1
         /\ Cardinality(Positions(OpsOfCall, "callback")) <= 1
         /\ hCallback.kind = "none" => Positions(OpsOfCall, "callback") = {}
         /\ \A d \in Positions(OpsOfCall, "down"), u \in Positions(OpsOfCall, "up") :
              /\ d < u
              /\ \A c \in Positions(OpsOfCall, "callback") : d < c /\ c < u
         /\ hCallback.kind = "returns" => hOutcome = [kind |-> "return", value |-> hCallback.value]
         /\ hCallback.kind = "none" => hOutcome = [kind |-> "return", value |-> "None"]
    /\ \A n \in 0..Len(hMouse) :
         Cardinality(Positions(SubSeq(hMouse, 1, n), "up"))
           <= Cardinality(Positions(SubSeq(hMouse, 1, n), "down"))

\* The second call of a sequence, with a callback that returned a value:
\* move, down, callback, up, and the value returned.
C30_Witness ==
    /\ hPc = "done" /\ hCalls = 2
    /\ hCallback = [kind |-> "returns", value |-> "v1"]
    /\ OpsOfCall = <<"move", "down", "callback", "up">>
    /\ hOutcome = [kind |-> "return", value |-> "v1"]
    /\ Cardinality(Positions(hMouse, "down")) = 2
=============================================================================
